---- MODULE Spec2Model ----
(***************************************************************************)
(* A model of erg-screen-reader:                                           *)
(*   - time_to_seconds / calculate_watts   (erg_screen_reader/models.py)   *)
(*   - the workout models' model_post_init (erg_screen_reader/models.py)   *)
(*   - FitAnalyzer: _parse_fit_data, get_column_data, get_timestamps,      *)
(*     calculate_pace, calculate_statistics, calculate_best_intervals and  *)
(*     the command line's summary report    (src/fit_analyzer.py)          *)
(*   - ErgScreenReader's Excel reports      (erg_screen_reader/core.py)    *)
(*   - the upload handlers    (src/app.py, erg_screen_reader/web.py)       *)
(*   - the erg command line                 (erg_screen_reader/cli.py)     *)
(*   - the standalone script                (src/Fit_csv_reader.py)        *)
(*   - GoogleSheetsService  (erg_screen_reader/google_sheets_service.py)   *)
(*                                                                         *)
(* Conventions.                                                            *)
(*   An Optional value is a sequence: None is <<>>, a present x is <<x>>.  *)
(*   A variable holding a call's result is <<>> before the call returns    *)
(*   and <<r>> once it has returned r.                                     *)
(*   A Python str is a sequence of one-character strings.                  *)
(*   A non-integral number is an exact rational [num |-> n, den |-> d]     *)
(*   with d > 0.  Binary floating-point rounding is modelled in            *)
(*   calculate_statistics only, on floats of MantissaBits significant      *)
(*   bits; everywhere else the arithmetic is exact.                        *)
(*   A value produced by round(x, 1) is kept as an integer count of        *)
(*   tenths (202.5 is 2025).  When x lies exactly half way between two     *)
(*   tenths the double nearest to x decides which neighbour Python         *)
(*   returns; the model leaves that to the Boolean parameter `up`.         *)
(***************************************************************************)
EXTENDS Integers, Sequences, FiniteSets, TLC

VARIABLES
    \* ---- time_to_seconds / calculate_watts calls
    time_str,       \* argument of the last time_to_seconds call
    seconds,        \* its result
    pace_time,      \* arguments of the last calculate_watts call
    distance,
    watts,          \* its result: None or tenths of a watt
    \* ---- one workout object (ReceiptDetails, ErgData, Interval...)
    kind,           \* the class being constructed
    segs,           \* its splits / intervals
    average_watts,  \* summary.average_watts
    pc,             \* "validated" before model_post_init, "constructed" after
    derived,        \* history: every evaluation of a segment's watts
    \* ---- FitAnalyzer.calculate_best_intervals calls
    values,         \* the metric series handed in
    intervals,      \* the window lengths handed in
    best_intervals, \* the returned dict
    \* ---- the segments' heart rates and the summary's average
    hrs,            \* hrs[i] is segment i's hr
    average_hr,     \* summary.average_hr
    \* ---- FitAnalyzer._parse_fit_data
    stream,         \* the record messages not yet read
    headers_written,
    headers,        \* self.headers
    data,           \* self.data
    ingested,       \* history: per raw sample read, the sample and its row
    \* ---- calls on a constructed FitAnalyzer
    column_name,    \* arguments of get_column_data
    keep_indices,
    column_data,    \* its outcome
    timestamps,     \* outcome of get_timestamps
    paces,          \* outcome of calculate_pace
    paired,         \* history: the records behind each emitted pace
    stats,          \* outcome of calculate_statistics(values)
    \* ---- the command line of fit_analyzer.py
    args_intervals, \* --intervals, as the minutes it lists
    metric,         \* the metric _print_metric_summary reports
    report,         \* what the run printed for it
    \* ---- the Excel report file written by ErgScreenReader
    xlsx,           \* "absent", "unreadable" or "book"
    summary_sheet,  \* the 'Summary' sheet: None or Some(its columns and rows)
    sheets,         \* the other sheets: sheet name -> content
    n_reports,      \* how many create_*_report calls were made
    last_report,    \* the arguments and outcome of the last of them
    \* ---- one request to an upload handler, or one run of the erg CLI
    request,        \* the request (the command line), None when there is none
    response,       \* the response: its status and its 'success' entry
    steps,          \* the effects carried out for it, in order
    uploaded,       \* whether the saved image is in the upload folder
    \* ---- the standalone script Fit_csv_reader.py
    window_avg,     \* outcome of highest_avg(n, values)
    found_max,      \* outcome of find_max(values)
    script_paces,   \* outcome of the pace loop over the records
    \* ---- one GoogleSheetsService instance
    service,        \* self.service: None or Some(handle)
    drive_service,  \* self.drive_service
    calls,          \* history: the method calls made on it, with outcomes
    traffic         \* history: the Sheets and Drive requests sent, in order

vars == <<time_str, seconds, pace_time, distance, watts,
          kind, segs, average_watts, pc, derived,
          values, intervals, best_intervals,
          hrs, average_hr,
          stream, headers_written, headers, data, ingested,
          column_name, keep_indices, column_data, timestamps, paces, paired,
          stats, args_intervals, metric, report,
          xlsx, summary_sheet, sheets, n_reports, last_report,
          request, response, steps, uploaded,
          window_avg, found_max, script_paces,
          service, drive_service, calls, traffic>>

parseVars == <<time_str, seconds, pace_time, distance, watts>>
workoutVars == <<kind, segs, average_watts, pc, derived>>
windowVars == <<values, intervals, best_intervals>>
heartVars == <<hrs, average_hr>>
ingestVars == <<stream, headers_written, ingested>>
analyzerVars == <<headers, data>>
callVars == <<column_name, keep_indices, column_data, timestamps, paces, paired>>
cliVars == <<args_intervals, metric, report>>
\* the variables of the FIT analyzer besides the window call's
fitVars == <<ingestVars, analyzerVars, callVars, stats, cliVars>>
excelVars == <<xlsx, summary_sheet, sheets, n_reports, last_report>>
\* the variables of the report writers, the upload handlers and the services
uploadVars == <<request, response, steps, uploaded>>
scriptVars == <<window_avg, found_max, script_paces>>
serviceVars == <<service, drive_service, calls, traffic>>
toolVars == <<scriptVars, serviceVars>>
appVars == <<excelVars, uploadVars, toolVars>>
\* the variables of the computational core
coreVars == <<parseVars, workoutVars, windowVars, heartVars, fitVars>>

----------------------------------------------------------------------------
(* Bounds of the model.                                                    *)

\* longest string enumerated exhaustively as a time_to_seconds argument
MaxStrLen == 4
\* largest distance handed to calculate_watts besides the named examples
MaxWattsDist == 6
\* most segments of one workout besides the named examples
MaxSegs == 2
\* largest cumulative distance of a segment
MaxDist == 2
\* longest metric series besides the named example
MaxLen == 4
\* largest sample of a metric series besides the named example
MaxVal == 1
\* most window lengths in one calculate_best_intervals call
MaxWindows == 2
\* significant bits of a float in calculate_statistics
MantissaBits == 10
\* longest series handed to calculate_statistics besides the named ones
MaxStatLen == 3
\* largest small sample of such a series
MaxStat == 2
\* most record messages of a FIT file besides the named examples
MaxRecords == 2
\* most rows of a constructed analyzer besides the named examples
MaxRows == 2

----------------------------------------------------------------------------
(* Strings and numbers.                                                    *)

None == <<>>
Some(x) == <<x>>

NoResult == <<>>
Returned(r) == <<r>>

Digits == {"0", "1", "2", "3", "4", "5", "6", "7", "8", "9"}

DigitVal(c) ==
    CASE c = "0" -> 0 [] c = "1" -> 1 [] c = "2" -> 2 [] c = "3" -> 3
      [] c = "4" -> 4 [] c = "5" -> 5 [] c = "6" -> 6 [] c = "7" -> 7
      [] c = "8" -> 8 [] c = "9" -> 9

RECURSIVE Pow10(_)
Pow10(k) == IF k = 0 THEN 1 ELSE 10 * Pow10(k - 1)

RECURSIVE NatVal(_)
\* the value of a string of decimal digits (0 for the empty string)
NatVal(s) ==
    IF s = <<>> THEN 0
    ELSE 10 * NatVal(SubSeq(s, 1, Len(s) - 1)) + DigitVal(s[Len(s)])

AllDigits(s) == \A i \in 1..Len(s) : s[i] \in Digits

Count(s, c) == Cardinality({i \in 1..Len(s) : s[i] = c})

FirstIndex(s, c) == CHOOSE i \in 1..Len(s) : s[i] = c /\ \A j \in 1..(i - 1) : s[j] # c

Before(s, c) == SubSeq(s, 1, FirstIndex(s, c) - 1)
After(s, c) == SubSeq(s, FirstIndex(s, c) + 1, Len(s))

Remove(s, c) == SelectSeq(s, LAMBDA x : x # c)

Rat(n, d) == [num |-> n, den |-> d]
RatEq(a, b) == a.num * b.den = b.num * a.den
RatAdd(a, b) == Rat(a.num * b.den + b.num * a.den, a.den * b.den)

Abs(x) == IF x < 0 THEN -x ELSE x

RECURSIVE Gcd(_, _)
Gcd(a, b) == IF b = 0 THEN a ELSE Gcd(b, a % b)

----------------------------------------------------------------------------
(* Python's int() and float() on the strings of the model.  The strings    *)
(* are built from decimal digits, ':', '.', '-', '+' and the letter 'x';   *)
(* white space, '_', exponents and inf/nan are outside this alphabet.      *)
(* A conversion yields [ok |-> FALSE] where Python raises ValueError.      *)

Signed(s) == s # <<>> /\ s[1] \in {"-", "+"}
Unsigned(s) == IF Signed(s) THEN Tail(s) ELSE s
Sign(s) == IF s # <<>> /\ s[1] = "-" THEN -1 ELSE 1

\* int(s)
py_int(s) ==
    LET body == Unsigned(s)
    IN  IF body # <<>> /\ AllDigits(body)
        THEN [ok |-> TRUE, val |-> Sign(s) * NatVal(body)]
        ELSE [ok |-> FALSE]

\* float(s)
py_float(s) ==
    LET body == Unsigned(s)
        digs == Remove(body, ".")
    IN  IF Count(body, ".") <= 1 /\ digs # <<>> /\ AllDigits(digs)
        THEN IF Count(body, ".") = 1
             THEN [ok |-> TRUE,
                   val |-> Rat(Sign(s) * NatVal(digs), Pow10(Len(After(body, "."))))]
             ELSE [ok |-> TRUE, val |-> Rat(Sign(s) * NatVal(digs), 1)]
        ELSE [ok |-> FALSE]

\* float(f"0.{decimal_part}"), decimal_part holding no '.'
py_float_fraction(decimal_part) ==
    IF AllDigits(decimal_part)
    THEN [ok |-> TRUE, val |-> Rat(NatVal(decimal_part), Pow10(Len(decimal_part)))]
    ELSE [ok |-> FALSE]

Zero == Rat(0, 1)

----------------------------------------------------------------------------
(* time_to_seconds                                                         *)

\* lines 16-25: main_part and decimal_seconds to total_seconds
time_main(time_str_, main_part, decimal_seconds) ==
    IF Count(main_part, ":") >= 1
    THEN IF Count(main_part, ":") = 1
         THEN LET minutes == py_int(Before(main_part, ":"))
                  secs == py_int(After(main_part, ":"))
              IN  IF minutes.ok /\ secs.ok
                  THEN RatAdd(Rat(minutes.val * 60 + secs.val, 1), decimal_seconds)
                  ELSE Zero
         ELSE LET f == py_float(Remove(time_str_, ":"))
              IN  IF f.ok THEN f.val ELSE Zero
    ELSE LET f == py_float(main_part)
         IN  IF f.ok THEN RatAdd(f.val, decimal_seconds) ELSE Zero

\* time_to_seconds(time_str): every ValueError ends in `return 0.0`
time_to_seconds(time_str_) ==
    IF Count(time_str_, ".") >= 1
    THEN IF Count(time_str_, ".") # 1
         THEN Zero      \* main_part, decimal_part = ... cannot unpack
         ELSE LET d == py_float_fraction(After(time_str_, "."))
              IN  IF d.ok THEN time_main(time_str_, Before(time_str_, "."), d.val)
                  ELSE Zero
    ELSE time_main(time_str_, time_str_, Zero)

----------------------------------------------------------------------------
(* calculate_watts                                                         *)

\* round(n / d) for n >= 0, d > 0; `up` settles an exact tie
RoundDiv(n, d, up) ==
    LET q == n \div d
        r == n % d
    IN  IF r < d - r THEN q
        ELSE IF r > d - r THEN q + 1
        ELSE IF up THEN q + 1 ELSE q

Cube(x) == x * x * x

\* the mutant of watts_formula that squares the pace instead of cubing it
watts_formula_square(time_seconds, distance_, up) ==
    LET g == Gcd(time_seconds.num, distance_ * time_seconds.den)
        p == time_seconds.num \div g
        q == (distance_ * time_seconds.den) \div g
    IN  IF p >= 6 * q THEN 0 ELSE RoundDiv(28 * q * q, p * p, up)

\* round(2.80 / (time_seconds / distance) ** 3, 1) in tenths, for
\* time_seconds > 0 and distance > 0.  The pace is reduced to lowest terms
\* p / q first; a pace of 4 s/m or more gives less than 0.05 W, hence 0.
watts_formula(time_seconds, distance_, up) ==
    LET g == Gcd(time_seconds.num, distance_ * time_seconds.den)
        p == time_seconds.num \div g
        q == (distance_ * time_seconds.den) \div g
    IN  IF p >= 4 * q THEN 0 ELSE RoundDiv(28 * Cube(q), Cube(p), up)

\* the mutant of calculate_watts whose guards return 0.0 for None
calculate_watts_zero(pace_time_, distance_, up) ==
    IF pace_time_ = None \/ pace_time_[1] = <<>> \/ distance_ <= 0 THEN Some(0)
    ELSE LET time_seconds == time_to_seconds(pace_time_[1])
         IN  IF time_seconds.num <= 0 THEN Some(0)
             ELSE Some(watts_formula(time_seconds, distance_, up))

\* calculate_watts(pace_time, distance); pace_time is None or Some(str)
calculate_watts(pace_time_, distance_, up) ==
    IF pace_time_ = None \/ pace_time_[1] = <<>> \/ distance_ <= 0 THEN None
    ELSE LET time_seconds == time_to_seconds(pace_time_[1])
         IN  IF time_seconds.num <= 0 THEN None
             ELSE Some(watts_formula(time_seconds, distance_, up))

----------------------------------------------------------------------------
(* The workout models: Split / Interval and the four classes that hold a   *)
(* summary and a list of them.  A segment is                               *)
(*   [distance |-> split_distance / interval_distance (cumulative),        *)
(*    pace     |-> split_pace / interval_pace,                             *)
(*    actual   |-> _actual_split_distance / _actual_interval_distance]     *)

SplitKinds == {"ReceiptDetails", "ErgData"}
IntervalKinds == {"IntervalReceiptDetails", "IntervalWorkoutData"}
Kinds == SplitKinds \cup IntervalKinds

\* Split.watts falls back to 500 m while _actual_split_distance is None
FallbackSplitDistance == 500

Segment(d, p) == [distance |-> d, pace |-> p, actual |-> None]

\* set_actual_split_distance / set_actual_interval_distance
set_actual_distance(seg, d) == [seg EXCEPT !.actual = Some(d)]

\* the mutant of watts_distance that never looks at the reconciled distance
watts_distance_unreconciled(kind_, seg) ==
    IF kind_ \in SplitKinds THEN FallbackSplitDistance ELSE seg.distance

\* the distance Split.watts / Interval.watts hands to calculate_watts
watts_distance(kind_, seg) ==
    IF seg.actual # None THEN seg.actual[1]
    ELSE IF kind_ \in SplitKinds THEN FallbackSplitDistance
    ELSE seg.distance

\* Split.watts / Interval.watts
seg_watts(kind_, seg, up) ==
    calculate_watts(Some(seg.pace), watts_distance(kind_, seg), up)

RECURSIVE reconcile_from(_, _, _)
\* the loop of _calculate_actual_split_distances from segment i on
reconcile_from(segs_, i, prev) ==
    IF i > Len(segs_) THEN segs_
    ELSE LET actual_distance == segs_[i].distance - prev
         IN  reconcile_from(
                 [segs_ EXCEPT ![i] = set_actual_distance(segs_[i], actual_distance)],
                 i + 1, segs_[i].distance)

\* the mutant of calculate_actual_distances that never advances prev_distance
calculate_actual_distances_noprev(segs_) ==
    [i \in 1..Len(segs_) |-> set_actual_distance(segs_[i], segs_[i].distance)]

\* _calculate_actual_split_distances / _calculate_actual_interval_distances,
\* up to the call of _calculate_average_watts
calculate_actual_distances(segs_) == reconcile_from(segs_, 1, 0)

RECURSIVE SumSeq(_)
SumSeq(s) == IF s = <<>> THEN 0 ELSE s[1] + SumSeq(Tail(s))

\* [split.watts for split in self.splits]; ups[i] settles segment i's tie
all_watts(kind_, segs_, ups) ==
    [i \in 1..Len(segs_) |-> seg_watts(kind_, segs_[i], ups[i])]

\* every list all_watts can be, over the ways the ties can fall
AllWattsOutcomes(kind_, segs_) ==
    LET n == Len(segs_)
        lo == all_watts(kind_, segs_, [i \in 1..n |-> FALSE])
        hi == all_watts(kind_, segs_, [i \in 1..n |-> TRUE])
    IN  {[i \in 1..n |-> IF ups[i] THEN hi[i] ELSE lo[i]] : ups \in [1..n -> BOOLEAN]}

\* watts_values of _calculate_average_watts: the watts that are not None
watts_values(all) ==
    LET kept == SelectSeq(all, LAMBDA w : w # None)
    IN  [i \in 1..Len(kept) |-> kept[i][1]]

\* the mutant of calculate_average_watts that divides by the number of segments
calculate_average_watts_all(all, old, up) ==
    LET wv == watts_values(all)
    IN  IF wv # <<>> THEN Some(RoundDiv(SumSeq(wv), Len(all), up)) ELSE old

\* the mutant of calculate_average_watts that clears the average when no
\* segment has watts
calculate_average_watts_reset(all, old, up) ==
    LET wv == watts_values(all)
    IN  IF wv # <<>> THEN Some(RoundDiv(SumSeq(wv), Len(wv), up)) ELSE None

\* _calculate_average_watts: the new summary.average_watts
calculate_average_watts(all, old, up) ==
    LET wv == watts_values(all)
    IN  IF wv # <<>> THEN Some(RoundDiv(SumSeq(wv), Len(wv), up)) ELSE old

\* one evaluation of a segment's watts, as the history keeps it
Derivation(kind_, segs_, i) ==
    [seg |-> i,
     distance |-> watts_distance(kind_, segs_[i]),
     fallback |-> segs_[i].actual = None]

----------------------------------------------------------------------------
(* FitAnalyzer.calculate_best_intervals.  The returned dict is a function  *)
(* from the window lengths it holds to max_avg / interval_sec, kept as the *)
(* exact rational [num |-> max_avg, den |-> interval_sec].                 *)

EmptyDict == <<>>

\* best_intervals[k] = v
DictSet(d, k, v) == [x \in (DOMAIN d) \cup {k} |-> IF x = k THEN v ELSE d[x]]

\* sum(values[:n])
SumFirst(values_, n) == SumSeq(SubSeq(values_, 1, n))

Max(a, b) == IF a >= b THEN a ELSE b

RECURSIVE slide(_, _, _, _, _)
\* the loop `for i in range(interval_sec, len(values))`; i is 1-based here
slide(values_, interval_sec, i, window_sum, max_avg) ==
    IF i > Len(values_) THEN max_avg
    ELSE LET next_sum == window_sum - values_[i - interval_sec] + values_[i]
         IN  slide(values_, interval_sec, i + 1, next_sum, Max(max_avg, next_sum))

\* the mutant of window_max that keeps `max_avg = 0` as the first maximum
window_max_from_zero(values_, interval_sec) ==
    slide(values_, interval_sec, interval_sec + 1, SumFirst(values_, interval_sec), 0)

\* the mutant of window_max whose loop starts one window late
window_max_skip(values_, interval_sec) ==
    LET window_sum == SumFirst(values_, interval_sec)
    IN  IF interval_sec + 1 > Len(values_) THEN window_sum
        ELSE slide(values_, interval_sec, interval_sec + 2,
                   window_sum - values_[1] + values_[interval_sec + 1], window_sum)

\* lines 157-163: the largest window sum, for interval_sec <= len(values)
window_max(values_, interval_sec) ==
    LET window_sum == SumFirst(values_, interval_sec)
    IN  slide(values_, interval_sec, interval_sec + 1, window_sum, window_sum)

RECURSIVE best_from(_, _, _)
\* the loop `for interval_sec in intervals`, from the dict built so far
best_from(values_, intervals_, best) ==
    IF intervals_ = <<>> THEN best
    ELSE LET interval_sec == Head(intervals_)
         IN  IF Len(values_) < interval_sec
             THEN best_from(values_, Tail(intervals_), best)
             ELSE best_from(values_, Tail(intervals_),
                            DictSet(best, interval_sec,
                                    Rat(window_max(values_, interval_sec), interval_sec)))

RECURSIVE best_from_break(_, _, _)
\* best_from with `break` in place of `continue`
best_from_break(values_, intervals_, best) ==
    IF intervals_ = <<>> THEN best
    ELSE LET interval_sec == Head(intervals_)
         IN  IF Len(values_) < interval_sec
             THEN best
             ELSE best_from_break(values_, Tail(intervals_),
                                  DictSet(best, interval_sec,
                                          Rat(window_max(values_, interval_sec), interval_sec)))

\* the mutant of calculate_best_intervals that stops at the first window
\* length longer than the series
calculate_best_intervals_break(values_, intervals_) ==
    best_from_break(values_, intervals_, EmptyDict)

\* calculate_best_intervals(values, intervals)
calculate_best_intervals(values_, intervals_) ==
    best_from(values_, intervals_, EmptyDict)

----------------------------------------------------------------------------
(* FitAnalyzer: the parsed records and the calls that read them.           *)
(* A field value is None or Some(v), v being a number, a str or a          *)
(* datetime (kept as its count of seconds):                                *)

Num(n) == [kind |-> "num", num |-> n, str |-> <<>>]
Str(s) == [kind |-> "str", num |-> 0, str |-> s]
Time(t) == [kind |-> "time", num |-> t, str |-> <<>>]

\* the outcome of a call: what it returned, or the exception it raised
Return(v) == [exc |-> "", ret |-> v]
Raise(e) == [exc |-> e, ret |-> <<>>]

\* x in a list
InSeq(x, s) == \E i \in 1..Len(s) : s[i] = x

RatNorm(a) ==
    LET g == Gcd(Abs(a.num), a.den)
    IN  IF g = 0 THEN a ELSE Rat(a.num \div g, a.den \div g)

RatSub(a, b) == RatNorm(Rat(a.num * b.den - b.num * a.den, a.den * b.den))
RatPos(a) == a.num > 0

\* a / b for b > 0
RatDiv(a, b) == RatNorm(Rat(a.num * b.den, a.den * b.num))

\* float(v): a number converts, a str is parsed, a datetime is a TypeError
py_float_value(v) ==
    CASE v.kind = "num" -> [ok |-> TRUE, val |-> Rat(v.num, 1)]
      [] v.kind = "str" -> py_float(v.str)
      [] v.kind = "time" -> [ok |-> FALSE]

\* the mutant of parse_record that takes the headers from every record
parse_record_reheader(record, headers_written_, headers_, data_) ==
    LET data_row == [k \in 1..Len(record) |-> record[k].value]
        data_names == [k \in 1..Len(record) |-> record[k].name]
    IN  [headers_written |-> TRUE,
         headers |-> data_names,
         data |-> IF Len(data_row) = Len(data_names)
                  THEN Append(data_, data_row) ELSE data_]

\* one pass of the loop of _parse_fit_data (lines 63-75): a record is the
\* list of its fields [name |-> ..., value |-> ...]
parse_record(record, headers_written_, headers_, data_) ==
    LET data_row == [k \in 1..Len(record) |-> record[k].value]
        data_names == [k \in 1..Len(record) |-> record[k].name]
        new_headers == IF headers_written_ THEN headers_ ELSE data_names
    IN  [headers_written |-> TRUE,
         headers |-> new_headers,
         data |-> IF Len(data_row) = Len(new_headers)
                  THEN Append(data_, data_row) ELSE data_]

RECURSIVE column_from(_, _, _, _, _)
\* the loop `for i, row in enumerate(self.data)` of get_column_data from
\* row i on (rows and columns are counted from 1 here, the indices the
\* code appends from 0)
column_from(data_, col_index, i, values_, indices) ==
    IF i > Len(data_) THEN <<values_, indices>>
    ELSE LET row == data_[i]
         IN  IF col_index <= Len(row) /\ row[col_index] # None
             THEN LET f == py_float_value(row[col_index][1])
                  IN  IF f.ok
                      THEN column_from(data_, col_index, i + 1,
                                       Append(values_, f.val), Append(indices, i - 1))
                      ELSE column_from(data_, col_index, i + 1, values_, indices)
             ELSE column_from(data_, col_index, i + 1, values_, indices)

\* the mutant of get_column_data that appends the index before float()
\* is tried
get_column_data_early_index(headers_, data_, column_name_, keep_indices_) ==
    IF ~InSeq(column_name_, headers_) THEN Raise("ValueError")
    ELSE LET col_index == FirstIndex(headers_, column_name_)
             r == column_from(data_, col_index, 1, <<>>, <<>>)
             present == SelectSeq([i \in 1..Len(data_) |-> i],
                                  LAMBDA i : data_[i][col_index] # None)
         IN  IF keep_indices_
             THEN Return(<<r[1], [k \in 1..Len(present) |-> present[k] - 1]>>)
             ELSE Return(<<r[1]>>)

\* get_column_data(column_name, keep_indices): returns <<values>> for the
\* list alone, <<values, indices>> for the tuple
get_column_data(headers_, data_, column_name_, keep_indices_) ==
    IF ~InSeq(column_name_, headers_) THEN Raise("ValueError")
    ELSE LET r == column_from(data_, FirstIndex(headers_, column_name_), 1, <<>>, <<>>)
         IN  IF keep_indices_ THEN Return(r) ELSE Return(<<r[1]>>)

\* the rows get_timestamps keeps (counted from 1)
timestamp_rows(headers_, data_) ==
    IF ~InSeq("timestamp", headers_) THEN <<>>
    ELSE LET col_index == FirstIndex(headers_, "timestamp")
         IN  SelectSeq([i \in 1..Len(data_) |-> i],
                       LAMBDA i : col_index <= Len(data_[i])
                                  /\ data_[i][col_index] # None)

\* get_timestamps(): the values of the 'timestamp' column that are not None
get_timestamps(headers_, data_) ==
    LET rows == timestamp_rows(headers_, data_)
    IN  [k \in 1..Len(rows) |->
             data_[rows[k]][FirstIndex(headers_, "timestamp")][1]]

\* 1609.34 metres in a mile, 3600 seconds in an hour
MetresPerMile == Rat(160934, 100)
SecondsPerHour == 3600

\* timestamps[i] - timestamps[i-1] of two values a, b: "" when both are
\* datetimes, else the exception the subtraction or .total_seconds() raises
delta_exc(a, b) ==
    IF a.kind = "time" /\ b.kind = "time" THEN ""
    ELSE IF a.kind = "num" /\ b.kind = "num" THEN "AttributeError"
    ELSE "TypeError"

RECURSIVE pace_from(_, _, _, _)
\* the mutant of pace_from that also emits a pace for a negative
\* distance delta
pace_from_abs(timestamps_, distances, i, samples) ==
    IF i > Len(timestamps_) THEN Return(samples)
    ELSE IF delta_exc(timestamps_[i], timestamps_[i - 1]) # ""
    THEN Raise(delta_exc(timestamps_[i], timestamps_[i - 1]))
    ELSE LET dt == timestamps_[i].num - timestamps_[i - 1].num
             dd == RatSub(distances[i], distances[i - 1])
         IN  pace_from(timestamps_, distances, i + 1,
                 IF dt > 0 /\ dd.num # 0
                 THEN Append(samples,
                             [pace |-> RatDiv(Rat(60, 1),
                                              RatDiv(RatDiv(Rat(Abs(dd.num), dd.den),
                                                            MetresPerMile),
                                                     Rat(dt, SecondsPerHour))),
                              at |-> i])
                 ELSE samples)

\* the loop `for i in range(1, len(timestamps))` of calculate_pace from
\* position i on (counted from 1).  A sample is kept with the position it
\* was computed at: [pace |-> minutes per mile, at |-> i].
pace_from(timestamps_, distances, i, samples) ==
    IF i > Len(timestamps_) THEN Return(samples)
    ELSE IF delta_exc(timestamps_[i], timestamps_[i - 1]) # ""
    THEN Raise(delta_exc(timestamps_[i], timestamps_[i - 1]))
    ELSE LET time_delta == Rat(timestamps_[i].num - timestamps_[i - 1].num,
                               SecondsPerHour)
             distance_delta == RatDiv(RatSub(distances[i], distances[i - 1]),
                                      MetresPerMile)
         IN  IF RatPos(time_delta) /\ RatPos(distance_delta)
             THEN LET speed_mph == RatDiv(distance_delta, time_delta)
                  IN  IF RatPos(speed_mph)
                      THEN pace_from(timestamps_, distances, i + 1,
                               Append(samples,
                                      [pace |-> RatDiv(Rat(60, 1), speed_mph),
                                       at |-> i]))
                      ELSE pace_from(timestamps_, distances, i + 1, samples)
             ELSE pace_from(timestamps_, distances, i + 1, samples)

\* calculate_pace() up to its return, the samples with their positions
pace_samples(headers_, data_) ==
    IF ~InSeq("distance", headers_) \/ ~InSeq("timestamp", headers_)
    THEN Return(<<>>)
    ELSE LET timestamps_ == get_timestamps(headers_, data_)
             distances == get_column_data(headers_, data_, "distance", FALSE).ret[1]
         IN  IF Len(timestamps_) # Len(distances) \/ Len(timestamps_) < 2
             THEN Return(<<>>)
             ELSE pace_from(timestamps_, distances, 2, <<>>)

\* calculate_pace(): the list of paces, or the exception
calculate_pace(headers_, data_) ==
    LET r == pace_samples(headers_, data_)
    IN  IF r.exc # "" THEN r
        ELSE Return([k \in 1..Len(r.ret) |-> r.ret[k].pace])

\* the records behind the emitted paces: for each sample, the rows that
\* supplied timestamps[i], timestamps[i-1] and distances[i], distances[i-1]
pace_pairs(headers_, data_) ==
    LET r == pace_samples(headers_, data_)
        stamp_rows == timestamp_rows(headers_, data_)
        distance_rows == get_column_data(headers_, data_, "distance", TRUE).ret[2]
    IN  IF r.exc # "" THEN {}
        ELSE UNION {{[stamp_of |-> stamp_rows[i] - 1, distance_of |-> distance_rows[i]]
                         : i \in {r.ret[k].at, r.ret[k].at - 1}}
                        : k \in 1..Len(r.ret)}

----------------------------------------------------------------------------
(* FitAnalyzer.calculate_statistics.  Its sum and its division are float   *)
(* operations: each result is rounded to the nearest float, ties to the    *)
(* even mantissa.  The model's floats carry MantissaBits significant bits  *)
(* (CPython's carry 53) and have no exponent limits.                       *)

RECURSIVE Pow2(_)
Pow2(k) == IF k = 0 THEN 1 ELSE 2 * Pow2(k - 1)

\* n / d rounded to an integer, ties to even, for n >= 0 and d > 0
RoundHalfEven(n, d) ==
    LET q == n \div d
        r == n % d
    IN  IF r < d - r THEN q
        ELSE IF r > d - r THEN q + 1
        ELSE IF q % 2 = 0 THEN q ELSE q + 1

RECURSIVE fl_pos(_, _, _)
\* the float nearest to n / d > 0, for floats of `bits` significant bits
fl_pos(n, d, bits) ==
    IF n >= Pow2(bits) * d
    THEN LET h == fl_pos(n, 2 * d, bits) IN Rat(2 * h.num, h.den)
    ELSE IF n < Pow2(bits - 1) * d
    THEN LET h == fl_pos(2 * n, d, bits) IN Rat(h.num, 2 * h.den)
    ELSE Rat(RoundHalfEven(n, d), 1)

\* the float nearest to the rational a
fl(a, bits) ==
    IF a.num = 0 THEN Zero
    ELSE LET h == RatNorm(fl_pos(Abs(a.num), a.den, bits))
         IN  IF a.num < 0 THEN Rat(-h.num, h.den) ELSE h

RECURSIVE running_totals(_, _)
\* sum(values) as it proceeds: totals[k + 1] is the total after k
\* additions, each addition rounded (CPython 3.12 and later compensate
\* the additions; the quotient of the average is rounded all the same)
running_totals(values_, totals) ==
    IF Len(totals) > Len(values_) THEN totals
    ELSE running_totals(values_,
             Append(totals,
                    fl(RatAdd(totals[Len(totals)],
                              Rat(values_[Len(totals)], 1)), MantissaBits)))

\* sum(values)
float_sum(values_) == running_totals(values_, <<Zero>>)[Len(values_) + 1]

\* max(values), min(values) for a non-empty list
MaxOf(values_) ==
    CHOOSE m \in {values_[i] : i \in 1..Len(values_)} :
        \A i \in 1..Len(values_) : values_[i] <= m
MinOf(values_) ==
    CHOOSE m \in {values_[i] : i \in 1..Len(values_)} :
        \A i \in 1..Len(values_) : m <= values_[i]

\* calculate_statistics(values): {} or the dict of avg, max, min, count
calculate_statistics(values_) ==
    IF values_ = <<>> THEN EmptyDict
    ELSE [avg |-> fl(RatDiv(float_sum(values_), Rat(Len(values_), 1)),
                     MantissaBits),
          max |-> MaxOf(values_),
          min |-> MinOf(values_),
          count |-> Len(values_)]

----------------------------------------------------------------------------
(* Inputs of the calls.                                                    *)

Alphabet == {"0", "1", "5", ":", ".", "-", "x"}

StringsUpTo(n) == UNION {[1..k -> Alphabet] : k \in 0..n}

\* the time strings the documentation and the specification name
ExampleTimes ==
    { <<"2", ":", "0", "5", ".", "1">>,     \* "2:05.1"
      <<":", "4", "8", ".", "2">>,          \* ":48.2"
      <<"4", "8", ".", "2">>,               \* "48.2"
      <<"1", ":", "3", "4", ".", "6">>,     \* "1:34.6"
      <<"1", ":", "2", "5", ".", "4">>,     \* "1:25.4"
      <<"2", ":", "0", "5">>,               \* "2:05"
      <<"1", ":", "2", ":", "3", ".", "5">> \* "1:2:3.5"
    }

TimeStrings == StringsUpTo(MaxStrLen) \cup ExampleTimes

\* pace strings handed to calculate_watts
WattsPaces ==
    { <<>>, <<"x">>, <<"0">>, <<"0", ":", "0", "0">>, <<":", "5">>,
      <<"-", "5">>, <<".", "5">>, <<"1">>, <<"2">>, <<"3">>, <<"5">>,
      <<"1", ".", "5">>, <<"0", ":", "0", "2">>, <<"2", ":", "0", "0">>,
      <<"1", ":", "4", "0">> }

\* the paces of 120 s and 100 s, handed in with a distance of 500 m
ExamplePaces ==
    { <<"2", ":", "0", "0">>, <<"1", "2", "0">>, <<"2", ":", "0", "0", ".", "0">>,
      <<"1", ":", "4", "0">>, <<"1", ":", "4", "0", ".", "0">> }

\* (pace_time, distance): a missing pace, the paces above with small
\* distances, and the example paces with 500 m
WattsInputs ==
    (({None} \cup {Some(p) : p \in WattsPaces}) \X ((-2)..MaxWattsDist))
        \cup ({Some(p) : p \in ExamplePaces} \X {500})

----------------------------------------------------------------------------
(* Values of the variables a specification does not use.                   *)

IdleTime == time_str = <<>> /\ seconds = NoResult

IdleWatts == pace_time = None /\ distance = 0 /\ watts = NoResult

IdleWorkout ==
    /\ kind = "none" /\ segs = <<>> /\ average_watts = None
    /\ pc = "idle" /\ derived = {}

IdleWindow ==
    /\ values = <<>> /\ intervals = <<>> /\ best_intervals = NoResult

IdleHeart == hrs = <<>> /\ average_hr = None

IdleIngest == stream = <<>> /\ headers_written = FALSE /\ ingested = <<>>

IdleAnalyzer == headers = <<>> /\ data = <<>>

IdleCalls ==
    /\ column_name = "" /\ keep_indices = FALSE /\ column_data = NoResult
    /\ timestamps = NoResult /\ paces = NoResult /\ paired = {}

IdleStats == stats = NoResult

IdleCli == args_intervals = None /\ metric = "" /\ report = NoResult

IdleFit == IdleIngest /\ IdleAnalyzer /\ IdleCalls /\ IdleStats /\ IdleCli

IdleExcel ==
    /\ xlsx = "absent" /\ summary_sheet = None /\ sheets = <<>>
    /\ n_reports = 0 /\ last_report = None

IdleUpload ==
    /\ request = None /\ response = NoResult /\ steps = <<>>
    /\ uploaded = FALSE

IdleScript ==
    /\ window_avg = NoResult /\ found_max = NoResult /\ script_paces = NoResult

IdleService ==
    /\ service = None /\ drive_service = None /\ calls = <<>>
    /\ traffic = <<>>

IdleTools == IdleScript /\ IdleService

IdleApp == IdleExcel /\ IdleUpload /\ IdleTools

IdleCore ==
    /\ IdleTime /\ IdleWatts /\ IdleWorkout /\ IdleWindow /\ IdleHeart
    /\ IdleFit

----------------------------------------------------------------------------
(* SpecTime: one call of time_to_seconds on any of the time strings.       *)

InitTime ==
    /\ time_str \in TimeStrings
    /\ seconds = NoResult
    /\ IdleApp /\ IdleWatts /\ IdleWorkout /\ IdleWindow /\ IdleHeart /\ IdleFit

Call_time_to_seconds ==
    /\ seconds = NoResult
    /\ seconds' = Returned(time_to_seconds(time_str))
    /\ UNCHANGED <<appVars, time_str, pace_time, distance, watts, workoutVars, windowVars,
                   heartVars, fitVars>>

NextTime == Call_time_to_seconds

SpecTime == InitTime /\ [][NextTime]_vars

----------------------------------------------------------------------------
(* SpecWatts: one call of calculate_watts on any of the inputs.            *)

InitWatts ==
    /\ \E in \in WattsInputs : pace_time = in[1] /\ distance = in[2]
    /\ watts = NoResult
    /\ IdleApp /\ IdleTime /\ IdleWorkout /\ IdleWindow /\ IdleHeart /\ IdleFit

Call_calculate_watts ==
    /\ watts = NoResult
    /\ \E up \in BOOLEAN :
           watts' = Returned(calculate_watts(pace_time, distance, up))
    /\ UNCHANGED <<appVars, time_str, seconds, pace_time, distance, workoutVars, windowVars,
                   heartVars, fitVars>>

NextWatts == Call_calculate_watts

SpecWatts == InitWatts /\ [][NextWatts]_vars

----------------------------------------------------------------------------
(* Claims about time_to_seconds and calculate_watts.                       *)

\* [minutes] ':' seconds ['.' fraction]  or  seconds ['.' fraction]
TimeForm(s) ==
    /\ Count(s, ":") <= 1 /\ Count(s, ".") <= 1
    /\ LET rest == IF Count(s, ":") = 1 THEN After(s, ":") ELSE s
           secs == IF Count(rest, ".") = 1 THEN Before(rest, ".") ELSE rest
       IN  /\ secs # <<>> /\ AllDigits(secs)
           /\ Count(rest, ".") = 1 =>
                  After(rest, ".") # <<>> /\ AllDigits(After(rest, "."))
           /\ Count(s, ":") = 1 => AllDigits(Before(s, ":"))

\* minutes * 60 + seconds + fraction, an absent or empty minutes being 0
TimeFormValue(s) ==
    LET rest == IF Count(s, ":") = 1 THEN After(s, ":") ELSE s
        mins == IF Count(s, ":") = 1 THEN NatVal(Before(s, ":")) ELSE 0
        secs == IF Count(rest, ".") = 1 THEN Before(rest, ".") ELSE rest
        frac == IF Count(rest, ".") = 1 THEN After(rest, ".") ELSE <<>>
    IN  RatAdd(Rat(mins * 60 + NatVal(secs), 1), Rat(NatVal(frac), Pow10(Len(frac))))

\* C7 (as claimed): time_to_seconds returns minutes*60 + seconds + fraction
\* for every string of the form [minutes]:seconds[.fraction] or
\* seconds[.fraction], an absent or empty minutes component counting as 0
\* (so ":48.2" gives 48.2).
C7_ParsesEveryTimeForm ==
    (seconds # NoResult /\ TimeForm(time_str)) =>
        RatEq(seconds[1], TimeFormValue(time_str))

\* the guard cases of calculate_watts named by C8
WattsAbsentCase ==
    \/ distance <= 0
    \/ pace_time = None
    \/ pace_time[1] = <<>>
    \/ time_to_seconds(pace_time[1]).num <= 0

\* C8: calculate_watts returns None when distance <= 0, the pace string is
\* missing or empty, or the parsed time is <= 0 (never 0 or any other
\* number), and in every other case it returns a number.
C8_WattsAbsentExactlyOnGuards ==
    watts # NoResult =>
        IF WattsAbsentCase
        THEN watts[1] = None
        ELSE watts[1] # None /\ watts[1][1] \in Nat

\* C8's case: a call with a pace that parses to a time <= 0 returned None
C8_Witness ==
    /\ watts = Returned(None)
    /\ distance > 0 /\ pace_time # None /\ pace_time[1] # <<>>
    /\ time_to_seconds(pace_time[1]).num <= 0

\* C9: for a parsed time t > 0 and a distance d > 0 the result is
\* 2.80 / (t/d)^3 rounded to one decimal, i.e. within 0.05 of it (with
\* t/d = p/q: |w/10 - 2.8 q^3/p^3| <= 1/20); t = 120, d = 500 gives 202.5.
C9_WattsFormula ==
    (watts # NoResult /\ ~WattsAbsentCase) =>
        LET t == time_to_seconds(pace_time[1])
            g == Gcd(t.num, distance * t.den)
            p == t.num \div g
            q == (distance * t.den) \div g
            w == watts[1][1]
        IN  /\ watts[1] # None
            /\ IF p >= 4 * q
               THEN w = 0
               ELSE 2 * Abs(w * Cube(p) - 28 * Cube(q)) <= Cube(p)
            /\ (RatEq(t, Rat(120, 1)) /\ distance = 500) => w = 2025

\* C9's case: the call with a pace of 120 s and 500 m returned 202.5
C9_Witness ==
    /\ pace_time = Some(<<"2", ":", "0", "0">>)
    /\ distance = 500
    /\ watts = Returned(Some(2025))

----------------------------------------------------------------------------
(* SpecWorkout: construction of one workout object, then reads of its      *)
(* segments' watts by the report writers.                                  *)

SegDistances == (-1)..MaxDist

\* an empty (missing) pace and a pace of 2 s
SegPaces == { <<>>, <<"2">> }

\* three-segment workouts: one segment of zero distance, growing
\* cumulative distances with a missing pace, a decreasing cumulative distance
ExampleSegLists ==
    { <<Segment(1, <<"2">>), Segment(1, <<"2">>), Segment(2, <<"2">>)>>,
      <<Segment(1, <<"2">>), Segment(2, <<>>), Segment(2, <<"2">>)>>,
      <<Segment(2, <<"2">>), Segment(1, <<"2">>), Segment(2, <<"2">>)>> }

SegLists ==
    UNION {[1..n -> {Segment(d, p) : d \in SegDistances, p \in SegPaces}] :
               n \in 0..MaxSegs}
        \cup ExampleSegLists

\* the average_watts the caller supplies in the summary
SuppliedAverages == {None, Some(7)}

\* the fields are validated; model_post_init has not run yet
InitWorkout ==
    /\ kind \in Kinds
    /\ segs \in SegLists
    /\ average_watts \in SuppliedAverages
    /\ pc = "validated"
    /\ derived = {}
    /\ IdleApp /\ IdleTime /\ IdleWatts /\ IdleWindow /\ IdleHeart /\ IdleFit

\* model_post_init: _calculate_actual_*_distances, which ends by calling
\* _calculate_average_watts
model_post_init ==
    /\ pc = "validated"
    /\ LET reconciled == calculate_actual_distances(segs)
       IN  /\ segs' = reconciled
           /\ average_watts' \in
                  {calculate_average_watts(all, average_watts, up) :
                       all \in AllWattsOutcomes(kind, reconciled), up \in BOOLEAN}
           /\ derived' = derived \cup
                  {Derivation(kind, reconciled, i) : i \in 1..Len(segs)}
    /\ pc' = "constructed"
    /\ UNCHANGED <<appVars, kind, parseVars, windowVars, heartVars, fitVars>>

\* a report writer reads segment i's watts (split.watts, model_dump())
ReadWatts ==
    /\ pc = "constructed"
    /\ \E i \in 1..Len(segs) :
           /\ watts' \in {Returned(seg_watts(kind, segs[i], up)) : up \in BOOLEAN}
           /\ derived' = derived \cup {Derivation(kind, segs, i)}
    /\ UNCHANGED <<appVars, time_str, seconds, pace_time, distance, kind, segs,
                   average_watts, pc, windowVars, heartVars, fitVars>>

NextWorkout == model_post_init \/ ReadWatts

SpecWorkout == InitWorkout /\ [][NextWorkout]_vars

----------------------------------------------------------------------------
(* Claims about the workout models.                                        *)

\* the cumulative distance before segment i (0 before the first)
CumBefore(i) == IF i = 1 THEN 0 ELSE segs[i - 1].distance

NonDecreasing == \A i \in 2..Len(segs) : segs[i - 1].distance <= segs[i].distance

\* each incremental distance is cumulative - previous, none is negative,
\* and they add up to the last cumulative distance
Reconciled ==
    /\ \A i \in 1..Len(segs) :
           /\ segs[i].actual = Some(segs[i].distance - CumBefore(i))
           /\ segs[i].actual[1] >= 0
    /\ segs # <<>> =>
           SumSeq([i \in 1..Len(segs) |-> segs[i].actual[1]]) = segs[Len(segs)].distance

\* C4 (as claimed): for cumulative distances d_1 <= ... <= d_n, after
\* construction every incremental distance is cumulative - previous (0
\* before the first), is >= 0, and they sum to d_n.
C4_ReconciledWhenNonDecreasing ==
    (pc = "constructed" /\ NonDecreasing) => Reconciled

\* C4 (amended): for cumulative distances 0 <= d_1 <= ... <= d_n, after
\* construction of any of the four classes every incremental distance is
\* cumulative - previous (0 before the first), is >= 0, and they sum to d_n.
C4_ReconciledWhenNonDecreasingFromZero ==
    (/\ pc = "constructed"
     /\ NonDecreasing
     /\ segs # <<>> => segs[1].distance >= 0) => Reconciled

\* C4's case: three segments with growing cumulative distances, constructed
C4_Witness ==
    /\ pc = "constructed" /\ Len(segs) = 3
    /\ 0 < segs[1].distance /\ segs[1].distance < segs[2].distance
    /\ segs[2].distance <= segs[3].distance
    /\ segs[2].actual = Some(segs[2].distance - segs[1].distance)

\* C5 (as claimed): a segment whose cumulative distance is smaller than
\* the previous one is flagged, its incremental distance left absent; no
\* segment ever stores a negative incremental distance.
C5_DecreaseIsFlagged ==
    pc = "constructed" =>
        \A i \in 1..Len(segs) :
            /\ segs[i].distance < CumBefore(i) => segs[i].actual = None
            /\ segs[i].actual # None => segs[i].actual[1] >= 0

\* C6: every evaluation of a segment's watts (by _calculate_average_watts
\* or by a later reader) used the segment's reconciled incremental
\* distance, never the fallback and never another distance; none happens
\* before model_post_init has run.
C6_ReconciliationPrecedesPower ==
    /\ \A e \in derived :
           /\ ~e.fallback
           /\ segs[e.seg].actual = Some(e.distance)
           /\ e.distance = segs[e.seg].distance - CumBefore(e.seg)
    /\ (derived # {} \/ watts # NoResult) => pc = "constructed"

\* C6's case: a reader has evaluated the watts of a reconciled segment
C6_Witness ==
    /\ watts # NoResult /\ watts[1] # None
    /\ \E e \in derived : e.seg = 2 /\ e.distance > 0

\* the segments whose estimated power is defined
PowerDefined ==
    {i \in 1..Len(segs) :
         /\ segs[i].actual # None /\ segs[i].actual[1] > 0
         /\ time_to_seconds(segs[i].pace).num > 0}

\* C10: after construction, when some segment has a defined power, the
\* summary's average power is the mean over exactly those segments: for
\* their watts w_i (n of them), |average - (w_1 + ... + w_n) / n| is at
\* most half a tenth.
C10_AverageOverDefinedOnly ==
    (pc = "constructed" /\ PowerDefined # {}) =>
        /\ average_watts # None
        /\ \E all \in AllWattsOutcomes(kind, segs) :
               LET n == Cardinality(PowerDefined)
                   total == SumSeq([i \in 1..Len(all) |->
                                        IF i \in PowerDefined THEN all[i][1] ELSE 0])
               IN  /\ \A i \in 1..Len(all) : all[i] # None <=> i \in PowerDefined
                   /\ 2 * Abs(average_watts[1] * n - total) <= n

\* C10's case: three segments, one of zero distance, averaged over two
C10_Witness ==
    /\ pc = "constructed" /\ Len(segs) = 3
    /\ Cardinality(PowerDefined) = 2
    /\ \E i \in 1..3 : segs[i].actual = Some(0) /\ segs[i].pace # <<>>
    /\ average_watts # None /\ average_watts[1] > 0

----------------------------------------------------------------------------
(* SpecWindow: one call of calculate_best_intervals.                       *)

Samples == (-1)..MaxVal

\* the series of the documentation's sliding-window example
ExampleSeries == <<10, 20, 30, 5, 25>>

SeriesInputs ==
    UNION {[1..n -> Samples] : n \in 0..MaxLen} \cup {ExampleSeries}

\* positive window lengths, up to one more than the longest series
WindowLengths == 1..(MaxLen + 1)

WindowInputs == UNION {[1..n -> WindowLengths] : n \in 0..MaxWindows}

InitWindow ==
    /\ values \in SeriesInputs
    /\ intervals \in WindowInputs
    /\ best_intervals = NoResult
    /\ IdleApp /\ IdleTime /\ IdleWatts /\ IdleWorkout /\ IdleHeart /\ IdleFit

Call_calculate_best_intervals ==
    /\ best_intervals' = Returned(calculate_best_intervals(values, intervals))
    /\ UNCHANGED <<appVars, values, intervals, parseVars, workoutVars, heartVars, fitVars>>

NextWindow == Call_calculate_best_intervals

SpecWindow == InitWindow /\ [][NextWindow]_vars

----------------------------------------------------------------------------
(* Claims about calculate_best_intervals.                                  *)

\* the sum of the window of length w that starts after position i
WindowSum(v, i, w) == SumSeq(SubSeq(v, i + 1, i + w))

\* the largest window sum, by enumeration of all start positions
BruteMax(v, w) ==
    CHOOSE m \in {WindowSum(v, i, w) : i \in 0..(Len(v) - w)} :
        \A i \in 0..(Len(v) - w) : WindowSum(v, i, w) <= m

WindowsAsked == {intervals[k] : k \in 1..Len(intervals)}

AchievedByWindow(w, best) ==
    \E i \in 0..(Len(values) - w) : RatEq(best, Rat(WindowSum(values, i, w), w))

\* best >= sum(values) / len(values)
AtLeastSeriesAverage(w, best) ==
    best.num * Len(values) >= SumSeq(values) * best.den

C3_KeysAndIndependence ==
    best_intervals # NoResult =>
        /\ DOMAIN best_intervals[1] = {w \in WindowsAsked : w <= Len(values)}
        /\ \A w \in DOMAIN best_intervals[1] :
               best_intervals[1][w] = calculate_best_intervals(values, <<w>>)[w]

\* C3's case: a call asking first for a window longer than the series,
\* then for one that fits
C3_Witness ==
    /\ best_intervals # NoResult
    /\ Len(intervals) = 2
    /\ intervals[1] > Len(values) /\ intervals[2] <= Len(values)
    /\ DOMAIN best_intervals[1] = {intervals[2]}

----------------------------------------------------------------------------
(* SpecFit: a constructed FitAnalyzer and calls of get_column_data,        *)
(* get_timestamps and calculate_pace on it, in any order, any number of    *)
(* times.                                                                  *)

\* what a 'timestamp' field and a 'distance' field hold: nothing, a
\* datetime, a number, a str that is no number, a str that is one
StampCells == {None, Some(Time(0)), Some(Time(1))}
DistanceCells ==
    {None, Some(Num(0)), Some(Num(1)), Some(Str(<<"x">>)), Some(Str(<<"2">>))}

RowsUpTo(cells, n) == UNION {[1..k -> cells] : k \in 0..n}

Analyzer(headers_, data_) == [headers |-> headers_, data |-> data_]

\* files whose records name 'timestamp' and 'distance', or 'distance' only
AnalyzersUpTo(n) ==
    {Analyzer(<<"timestamp", "distance">>, d) :
         d \in RowsUpTo({<<t, m>> : t \in StampCells, m \in DistanceCells}, n)}
      \cup {Analyzer(<<"distance">>, d) :
                d \in RowsUpTo({<<m>> : m \in DistanceCells}, n)}

\* five complete records: a step forward, a repeated timestamp, a
\* distance that falls back, a step forward
SteadyRecords ==
    << <<Some(Time(0)), Some(Num(0))>>, <<Some(Time(5)), Some(Num(100))>>,
       <<Some(Time(5)), Some(Num(150))>>, <<Some(Time(9)), Some(Num(120))>>,
       <<Some(Time(12)), Some(Num(300))>> >>

\* a record without a timestamp, a complete one, a record without a distance
GappyRecords ==
    << <<None, Some(Num(0))>>, <<Some(Time(0)), Some(Num(1))>>,
       <<Some(Time(1)), None>> >>

\* a complete record, an empty one, a complete one
PausedRecords ==
    << <<Some(Time(0)), Some(Num(0))>>, <<None, None>>,
       <<Some(Time(1)), Some(Num(1))>> >>

\* a row stored with a number under 'timestamp'
ShiftedRecords ==
    << <<Some(Time(0)), Some(Num(0))>>, <<Some(Num(1)), Some(Str(<<"2">>))>> >>

ExampleAnalyzers ==
    {Analyzer(<<"timestamp", "distance">>, d) :
         d \in {SteadyRecords, GappyRecords, PausedRecords, ShiftedRecords}}

\* the column names asked for: two of the file, one it does not have
ColumnNames == {"timestamp", "distance", "power"}

InitCalls ==
    /\ column_name \in ColumnNames
    /\ keep_indices \in BOOLEAN
    /\ column_data = NoResult /\ timestamps = NoResult
    /\ paces = NoResult /\ paired = {}

InitFit ==
    /\ \E a \in AnalyzersUpTo(MaxRows) \cup ExampleAnalyzers :
           headers = a.headers /\ data = a.data
    /\ InitCalls
    /\ IdleApp /\ IdleTime /\ IdleWatts /\ IdleWorkout /\ IdleWindow /\ IdleHeart
    /\ IdleIngest /\ IdleStats /\ IdleCli

Call_get_column_data ==
    /\ column_data' = Returned(get_column_data(headers, data, column_name, keep_indices))
    /\ UNCHANGED <<appVars, parseVars, workoutVars, windowVars, heartVars, ingestVars,
                   analyzerVars, column_name, keep_indices, timestamps, paces,
                   paired, stats, cliVars>>

Call_get_timestamps ==
    /\ timestamps' = Returned(Return(get_timestamps(headers, data)))
    /\ UNCHANGED <<appVars, parseVars, workoutVars, windowVars, heartVars, ingestVars,
                   analyzerVars, column_name, keep_indices, column_data, paces,
                   paired, stats, cliVars>>

Call_calculate_pace ==
    /\ paces' = Returned(calculate_pace(headers, data))
    /\ paired' = paired \cup pace_pairs(headers, data)
    /\ UNCHANGED <<appVars, parseVars, workoutVars, windowVars, heartVars, ingestVars,
                   analyzerVars, column_name, keep_indices, column_data,
                   timestamps, stats, cliVars>>

NextFit == Call_get_column_data \/ Call_get_timestamps \/ Call_calculate_pace

SpecFit == InitFit /\ [][NextFit]_vars

----------------------------------------------------------------------------
(* Claims about calculate_pace and get_column_data.                        *)

\* the cell of row i under a column the file has
CellOf(i, name) == data[i][FirstIndex(headers, name)]

\* row i carries a timestamp / a distance that is a number
HasStamp(i) == CellOf(i, "timestamp") # None
HasDistance(i) ==
    CellOf(i, "distance") # None /\ py_float_value(CellOf(i, "distance")[1]).ok

\* every record carries a datetime and a numeric distance, or neither
PairsWellFormed ==
    \A i \in 1..Len(data) :
        /\ HasStamp(i) <=> HasDistance(i)
        /\ HasStamp(i) => CellOf(i, "timestamp")[1].kind = "time"

\* the records that are (timestamp, distance) pairs, in record order
PairRows == SelectSeq([i \in 1..Len(data) |-> i], LAMBDA i : HasStamp(i) /\ HasDistance(i))

StampAt(k) == CellOf(PairRows[k], "timestamp")[1].num
DistanceAt(k) == py_float_value(CellOf(PairRows[k], "distance")[1]).val

\* the consecutive pairs that move forward in time and in distance
MovingPairs ==
    SelectSeq([j \in 1..(Len(PairRows) - 1) |-> j + 1],
              LAMBDA k : /\ StampAt(k) - StampAt(k - 1) > 0
                         /\ RatPos(RatSub(DistanceAt(k), DistanceAt(k - 1))))

\* minutes per mile over pair k: seconds * 1609.34 / (60 * metres)
PaceOfPair(k) ==
    LET metres == RatSub(DistanceAt(k), DistanceAt(k - 1))
    IN  RatNorm(Rat((StampAt(k) - StampAt(k - 1)) * 160934 * metres.den,
                    6000 * metres.num))

\* C11: calculate_pace emits one pace per consecutive (timestamp,
\* distance) pair whose time delta and distance delta are both > 0, in
\* order, and none for any other pair; every emitted pace is a strictly
\* positive finite number and n records give at most n - 1 paces.
C11_PacePerMovingPair ==
    (/\ paces # NoResult /\ paces[1].exc = ""
     /\ InSeq("timestamp", headers) /\ InSeq("distance", headers)) =>
        LET out == paces[1].ret
        IN  /\ \A k \in 1..Len(out) : out[k].num > 0 /\ out[k].den > 0
            /\ Len(out) <= IF data = <<>> THEN 0 ELSE Len(data) - 1
            /\ PairsWellFormed =>
                   /\ Len(out) = Len(MovingPairs)
                   /\ \A k \in 1..Len(out) : out[k] = PaceOfPair(MovingPairs[k])

\* C11's case: five records, two of the four pairs moving forward
C11_Witness ==
    /\ data = SteadyRecords
    /\ paces # NoResult /\ paces[1].exc = ""
    /\ Len(paces[1].ret) = 2

\* C12 (as claimed): every emitted pace pairs timestamps and distances of
\* the same records, also when some records lack a timestamp and others
\* lack a distance.
C12_PaceWithinOneRecord ==
    \A p \in paired : p.stamp_of = p.distance_of

\* the rows whose cell under column_name converts to float, counted from 0
ConvertibleRows ==
    {i \in 0..(Len(data) - 1) :
         /\ CellOf(i + 1, column_name) # None
         /\ py_float_value(CellOf(i + 1, column_name)[1]).ok}

\* the k-th smallest element of a set of numbers
Kth(S, k) == CHOOSE x \in S : Cardinality({y \in S : y < x}) = k - 1

\* C13: for a column of the headers get_column_data raises nothing; the
\* values are the floats of the cells that are neither None nor
\* non-numeric, in record order; with keep_indices the indices are as many
\* as the values, strictly increasing, and indices[k] is the position of
\* the record values[k] came from.
C13_ColumnOmitsUnparseable ==
    (column_data # NoResult /\ InSeq(column_name, headers)) =>
        LET out == column_data[1]
        IN  /\ out.exc = ""
            /\ Len(out.ret) = IF keep_indices THEN 2 ELSE 1
            /\ Len(out.ret[1]) = Cardinality(ConvertibleRows)
            /\ \A k \in 1..Len(out.ret[1]) :
                   out.ret[1][k] =
                       py_float_value(CellOf(Kth(ConvertibleRows, k) + 1,
                                             column_name)[1]).val
            /\ keep_indices =>
                   /\ Len(out.ret[2]) = Len(out.ret[1])
                   /\ \A k \in 1..Len(out.ret[2]) :
                          out.ret[2][k] = Kth(ConvertibleRows, k)
                   /\ \A k \in 2..Len(out.ret[2]) :
                          out.ret[2][k - 1] < out.ret[2][k]

\* C13's case: a column with a missing and a non-numeric value read with
\* keep_indices, the second row being the only one kept
C13_Witness ==
    /\ column_data # NoResult /\ keep_indices /\ column_name = "distance"
    /\ Len(data) = 2
    /\ column_data[1].exc = ""
    /\ column_data[1].ret[2] = <<1>>
    /\ CellOf(1, "distance") # None

----------------------------------------------------------------------------
(* SpecIngest: FitAnalyzer.__init__ reading the record messages of a file, *)
(* one pass of the loop of _parse_fit_data per step.                       *)

FieldNames == {"timestamp", "distance", "power"}

Field(n, v) == [name |-> n, value |-> v]

\* a record message: up to two fields of different names, each holding
\* nothing or a number
RawValues == {None, Some(Num(1))}
RawRecords ==
    {<<>>}
      \cup {<<Field(n, v)>> : n \in FieldNames, v \in RawValues}
      \cup {<<Field(ns[1], v1), Field(ns[2], v2)>> :
                ns \in {p \in FieldNames \X FieldNames : p[1] # p[2]},
                v1 \in RawValues, v2 \in RawValues}

InitIngest ==
    /\ stream \in UNION {[1..n -> RawRecords] : n \in 0..MaxRecords}
    /\ headers_written = FALSE
    /\ headers = <<>> /\ data = <<>>
    /\ ingested = <<>>
    /\ IdleApp /\ IdleTime /\ IdleWatts /\ IdleWorkout /\ IdleWindow /\ IdleHeart
    /\ IdleCalls /\ IdleStats /\ IdleCli

\* the loop body of _parse_fit_data on the next record message
Read_record ==
    /\ stream # <<>>
    /\ LET after == parse_record(Head(stream), headers_written, headers, data)
       IN  /\ headers_written' = after.headers_written
           /\ headers' = after.headers
           /\ data' = after.data
           /\ ingested' = Append(ingested,
                                 [sample |-> Head(stream),
                                  kept |-> Len(after.data) > Len(data)])
    /\ stream' = Tail(stream)
    /\ UNCHANGED <<appVars, parseVars, workoutVars, windowVars, heartVars, callVars,
                   stats, cliVars>>

NextIngest == Read_record

SpecIngest == InitIngest /\ [][NextIngest]_vars

----------------------------------------------------------------------------
(* Claims about _parse_fit_data.                                           *)

NamesOf(record) == [k \in 1..Len(record) |-> record[k].name]

\* C14: once the first record has been read the headers are the field
\* names of that record and stay so for the rest of the stream, whatever
\* fields later records carry; every stored row has len(headers) values.
C14_HeadersFixedByFirstSample ==
    /\ ingested # <<>> => headers_written /\ headers = NamesOf(ingested[1].sample)
    /\ ingested = <<>> => headers = <<>> /\ data = <<>>
    /\ \A i \in 1..Len(data) : Len(data[i]) = Len(headers)

\* C14's case: a second record with other field names has been read
C14_Witness ==
    /\ Len(ingested) = 2
    /\ Len(ingested[1].sample) = 2
    /\ NamesOf(ingested[2].sample) # NamesOf(ingested[1].sample)
    /\ headers = NamesOf(ingested[1].sample)
    /\ Len(data) = 2

\* the row of data that raw sample j was stored as
RowOfSample(j) == Cardinality({i \in 1..j : ingested[i].kept})

\* C15 (as claimed): a sample whose fields differ from the first sample's
\* is kept: there are as many stored records as raw samples read, each
\* value a sample carries is stored under its own field name, and the
\* fields it lacks are absent.
C15_DifferingSampleKept ==
    /\ Len(data) = Len(ingested)
    /\ \A j \in 1..Len(ingested) :
           ingested[j].kept =>
               LET sample == ingested[j].sample
                   row == data[RowOfSample(j)]
               IN  \A c \in 1..Len(headers) :
                       IF InSeq(headers[c], NamesOf(sample))
                       THEN row[c] = sample[FirstIndex(NamesOf(sample), headers[c])].value
                       ELSE row[c] = None

----------------------------------------------------------------------------
(* SpecStats: one call of calculate_statistics on a series of floats.      *)

\* small samples, and the two largest floats below 2^MantissaBits
StatSamples ==
    ((-1)..MaxStat) \cup {Pow2(MantissaBits) - 2, Pow2(MantissaBits) - 1}

StatSeries == UNION {[1..n -> StatSamples] : n \in 0..MaxStatLen}

InitStats ==
    /\ values \in StatSeries
    /\ intervals = <<>> /\ best_intervals = NoResult
    /\ stats = NoResult
    /\ IdleApp /\ IdleTime /\ IdleWatts /\ IdleWorkout /\ IdleHeart
    /\ IdleIngest /\ IdleAnalyzer /\ IdleCalls /\ IdleCli

\* the mutant of Call_calculate_statistics that sorts its argument in place
\* to read off min and max
Call_calculate_statistics_sorting ==
    /\ stats' = Returned(calculate_statistics(values))
    /\ values' = SortSeq(values, LAMBDA a, b : a < b)
    /\ UNCHANGED <<appVars, parseVars, workoutVars, intervals, best_intervals, heartVars,
                   ingestVars, analyzerVars, callVars, cliVars>>

Call_calculate_statistics ==
    /\ stats' = Returned(calculate_statistics(values))
    /\ UNCHANGED <<appVars, parseVars, workoutVars, windowVars, heartVars, ingestVars,
                   analyzerVars, callVars, cliVars>>

NextStats == Call_calculate_statistics

SpecStats == InitStats /\ [][NextStats]_vars

----------------------------------------------------------------------------
(* Claims about calculate_statistics.                                      *)

\* C16 (as claimed): for an empty series the result has no entries; for a
\* non-empty one count = len(values), max and min are elements of the
\* series bounding every element, and min <= avg <= max.
C16_StatisticsOfSeries ==
    stats # NoResult =>
        IF values = <<>> THEN DOMAIN stats[1] = {}
        ELSE LET st == stats[1]
             IN  /\ DOMAIN st = {"avg", "max", "min", "count"}
                 /\ st.count = Len(values)
                 /\ InSeq(st.max, values) /\ InSeq(st.min, values)
                 /\ \A i \in 1..Len(values) : st.min <= values[i] /\ values[i] <= st.max
                 /\ st.min * st.avg.den <= st.avg.num
                 /\ st.avg.num <= st.max * st.avg.den

----------------------------------------------------------------------------
(* SpecCalls: the five computational methods called on one analyzer and    *)
(* one pair of argument lists, in any order, any number of times.          *)

\* the analyzers of the examples and those of at most one record
CallAnalyzers == ExampleAnalyzers \cup AnalyzersUpTo(1)

\* the lists handed to calculate_statistics and calculate_best_intervals
CallSeries == {<<>>, <<2, 0, 1>>, ExampleSeries}
CallWindows == {<<2>>, <<6, 1>>}

InitAllCalls ==
    /\ \E a \in CallAnalyzers : headers = a.headers /\ data = a.data
    /\ InitCalls
    /\ values \in CallSeries
    /\ intervals \in CallWindows
    /\ best_intervals = NoResult
    /\ stats = NoResult
    /\ IdleApp /\ IdleTime /\ IdleWatts /\ IdleWorkout /\ IdleHeart /\ IdleIngest /\ IdleCli

NextCalls ==
    \/ Call_get_column_data
    \/ Call_get_timestamps
    \/ Call_calculate_pace
    \/ Call_calculate_statistics
    \/ Call_calculate_best_intervals

SpecCalls == InitAllCalls /\ [][NextCalls]_vars

----------------------------------------------------------------------------
(* SpecCli: one run of fit_analyzer.py's main that prints the summary of   *)
(* one metric (print_summary, then _print_metric_summary).  `values` is    *)
(* the series get_column_data returns for the metric.                      *)

\* intervals of _print_metric_summary: 1 min, 5 min, 10 min, 20 min
SummaryIntervals == <<60, 300, 600, 1200>>

\* the metrics whose summary lists best intervals
IntervalMetrics == {"power", "heart_rate", "hr"}

CliMetrics == IntervalMetrics \cup {"speed"}

\* --intervals absent, or the minutes it lists
CliIntervals ==
    {None} \cup {Some(m) : m \in {<<1>>, <<5>>, <<1, 5>>, <<5, 1>>, <<2, 10>>,
                                  <<1, 5, 10>>, <<1, 5, 10, 20>>}}

\* one sample a second: no data, a second, a minute, a second more
CliSeries ==
    {[i \in 1..n |-> v] : n \in {0, 1, 60, 61}, v \in {1, 2}}

InitCli ==
    /\ args_intervals \in CliIntervals
    /\ metric \in CliMetrics
    /\ values \in CliSeries
    /\ intervals = <<>> /\ best_intervals = NoResult
    /\ stats = NoResult
    /\ report = NoResult
    /\ IdleApp /\ IdleTime /\ IdleWatts /\ IdleWorkout /\ IdleHeart
    /\ IdleIngest /\ IdleAnalyzer /\ IdleCalls

\* main -> print_summary -> _print_metric_summary(metric): the statistics
\* and, for power and heart rate, the best intervals it prints
Run_main ==
    /\ report = NoResult
    /\ IF values = <<>>
       THEN /\ report' = Returned([stats |-> EmptyDict, best |-> EmptyDict])
            /\ UNCHANGED <<stats, intervals, best_intervals>>
       ELSE /\ stats' = Returned(calculate_statistics(values))
            /\ IF metric \in IntervalMetrics
               THEN /\ intervals' = SummaryIntervals
                    /\ best_intervals' =
                           Returned(calculate_best_intervals(values, SummaryIntervals))
                    /\ report' =
                           Returned([stats |-> calculate_statistics(values),
                                     best |-> calculate_best_intervals(values,
                                                                       SummaryIntervals)])
               ELSE /\ report' = Returned([stats |-> calculate_statistics(values),
                                           best |-> EmptyDict])
                    /\ UNCHANGED <<intervals, best_intervals>>
    /\ UNCHANGED <<appVars, parseVars, workoutVars, values, heartVars, ingestVars,
                   analyzerVars, callVars, args_intervals, metric>>

NextCli == Run_main

SpecCli == InitCli /\ [][NextCli]_vars

\* the window lengths, in samples of one second, that --intervals asks for
AskedWindows == [k \in 1..Len(args_intervals[1]) |-> 60 * args_intervals[1][k]]

\* C18 (as claimed): when --intervals is given, the best-interval analysis
\* of the run uses the window lengths it lists, and the report shows the
\* best averages of exactly those that fit the series.
C18_IntervalsOptionUsed ==
    (/\ report # NoResult /\ args_intervals # None
     /\ metric \in IntervalMetrics /\ values # <<>>) =>
        /\ intervals = AskedWindows
        /\ DOMAIN report[1].best =
               {AskedWindows[k] : k \in 1..Len(AskedWindows)} \cap (1..Len(values))

----------------------------------------------------------------------------
(* SpecHeart: construction of one workout whose segments report heart      *)
(* rates.                                                                  *)

\* Split.hr / Interval.hr
HeartRates == {None, Some(140), Some(150)}

\* summary.average_hr as the caller supplies it
SuppliedHeartAverages == {None, Some(145)}

\* workouts whose segments all have a pace and a distance
HeartSegLists ==
    {s \in SegLists : \A i \in 1..Len(s) : s[i].pace # <<>> /\ s[i].distance > 0}

InitHeart ==
    /\ kind \in Kinds
    /\ segs \in HeartSegLists
    /\ average_watts = None
    /\ hrs \in [1..Len(segs) -> HeartRates]
    /\ average_hr \in SuppliedHeartAverages
    /\ pc = "validated"
    /\ derived = {}
    /\ IdleApp /\ IdleTime /\ IdleWatts /\ IdleWindow /\ IdleFit

NextHeart == model_post_init

SpecHeart == InitHeart /\ [][NextHeart]_vars

\* the segments that report a heart rate
Reporting == {i \in 1..Len(hrs) : hrs[i] # None}

\* C19 (as claimed): once the workout is constructed and some segment
\* reports a heart rate, summary.average_hr is the mean of the heart rates
\* of the reporting segments alone (to the nearest integer either way).
C19_AverageHeartRateOverReporting ==
    (pc = "constructed" /\ Reporting # {}) =>
        /\ average_hr # None
        /\ LET n == Cardinality(Reporting)
               total == SumSeq([i \in 1..Len(hrs) |->
                                    IF hrs[i] # None THEN hrs[i][1] ELSE 0])
           IN  Abs(average_hr[1] * n - total) < n

----------------------------------------------------------------------------
(* A further claim about time_to_seconds, under SpecTime.                  *)

\* C20 (as claimed): time_to_seconds returns a number for every string,
\* and returns 0 only for a string that is not of the form
\* [minutes]:seconds[.fraction] or seconds[.fraction], or that denotes a
\* zero duration.
C20_ZeroOnlyWhenUnparseable ==
    seconds # NoResult =>
        /\ seconds[1].den > 0
        /\ seconds[1].num = 0 =>
               \/ ~TimeForm(time_str)
               \/ TimeFormValue(time_str).num = 0

----------------------------------------------------------------------------
(* ErgScreenReader's Excel reports (erg_screen_reader/core.py).            *)
(*                                                                         *)
(* The output file is "absent", "unreadable" (not a workbook pandas can    *)
(* open) or a "book".  A book is its 'Summary' sheet, if it has one, and   *)
(* its other sheets by name.  A cell of a sheet holds a str, the empty     *)
(* cell being the empty str; a cell of a frame read from a sheet holds a   *)
(* str or NaN.  The Summary sheet is [interval_columns, rows]:             *)
(* interval_columns tells whether the sheet has the columns that only      *)
(* the interval report writes, a row is its 'Name' cell, its               *)
(* 'Total Distance (m)' number and its 'Total Intervals' cell.             *)

MaxReports == 3

NaN == <<"NaN">>

\* cells that pd.read_excel reads as missing: the default na_values that
\* can be written with the characters of the model's names
NaValues == {<<>>, <<"N", "A">>}

read_cell(c) == IF c \in NaValues THEN NaN ELSE c
\* DataFrame.to_excel writes a missing value as an empty cell
write_cell(v) == IF v = NaN THEN <<>> ELSE v

Row(name, total_distance, total_intervals) ==
    [Name |-> name, total_distance |-> total_distance,
     total_intervals |-> total_intervals]

read_row(r) == Row(read_cell(r.Name), r.total_distance, read_cell(r.total_intervals))
write_row(r) == Row(write_cell(r.Name), r.total_distance, write_cell(r.total_intervals))

Frame(interval_columns, rows) == [interval_columns |-> interval_columns, rows |-> rows]

\* pd.read_excel(output_filename, sheet_name='Summary')
read_frame(sheet) ==
    Frame(sheet.interval_columns, [i \in 1..Len(sheet.rows) |-> read_row(sheet.rows[i])])

\* combined_df.to_excel(writer, sheet_name='Summary', index=False)
write_frame(frame) ==
    Frame(frame.interval_columns, [i \in 1..Len(frame.rows) |-> write_row(frame.rows[i])])

DictOf(keys, F(_)) == IF keys = {} THEN EmptyDict ELSE [k \in keys |-> F(k)]

\* the try block of create_excel_report: existing_summary_data and
\* existing_sheets_data.  pd.ExcelFile raises on an unreadable file and
\* pd.read_excel on a book without a 'Summary' sheet, both before any sheet
\* is stored, and the except clause goes on with what was read till then.
read_existing(xlsx_, summary_sheet_, sheets_) ==
    IF xlsx_ = "book" /\ summary_sheet_ # None
    THEN [summary |-> Some(read_frame(summary_sheet_[1])), sheets |-> sheets_]
    ELSE [summary |-> None, sheets |-> EmptyDict]

RECURSIVE lstrip(_)
lstrip(s) == IF s # <<>> /\ s[1] = " " THEN lstrip(Tail(s)) ELSE s

RECURSIVE rstrip(_)
rstrip(s) ==
    IF s # <<>> /\ s[Len(s)] = " " THEN rstrip(SubSeq(s, 1, Len(s) - 1)) ELSE s

\* int(s) for an s that may hold blanks: int() strips them at both ends
py_int_blank(s) == py_int(lstrip(rstrip(s)))

DigitChar(d) ==
    CASE d = 0 -> "0" [] d = 1 -> "1" [] d = 2 -> "2" [] d = 3 -> "3"
      [] d = 4 -> "4" [] d = 5 -> "5" [] d = 6 -> "6" [] d = 7 -> "7"
      [] d = 8 -> "8" [] d = 9 -> "9"

RECURSIVE py_str(_)
\* str(n) of a natural number n
py_str(n) ==
    IF n < 10 THEN <<DigitChar(n)>>
    ELSE py_str(n \div 10) \o <<DigitChar(n % 10)>>

startswith(s, prefix) ==
    Len(s) >= Len(prefix) /\ SubSeq(s, 1, Len(prefix)) = prefix

RECURSIVE max_suffix_from(_, _, _, _)
\* the loop of _get_unique_name from existing_names[i] on; a NaN among
\* the names has no startswith
max_suffix_from(existing_names, base_name, i, max_suffix) ==
    IF i > Len(existing_names) THEN Return(max_suffix)
    ELSE LET existing_name == existing_names[i]
             suffix_part == SubSeq(existing_name, Len(base_name) + 2,
                                   Len(existing_name))
             suffix_num == py_int_blank(suffix_part)
         IN  IF existing_name = base_name
             THEN max_suffix_from(existing_names, base_name, i + 1, max_suffix)
             ELSE IF existing_name = NaN
             THEN Raise("AttributeError")
             ELSE IF startswith(existing_name, base_name \o <<" ">>) /\ suffix_num.ok
             THEN max_suffix_from(existing_names, base_name, i + 1,
                                  Max(max_suffix, suffix_num.val))
             ELSE max_suffix_from(existing_names, base_name, i + 1, max_suffix)

names_of(frame) == [i \in 1..Len(frame.rows) |-> frame.rows[i].Name]

\* _get_unique_name(name, existing_data)
get_unique_name(name, existing_data) ==
    IF existing_data = None \/ existing_data[1].rows = <<>>
    THEN Return(name)
    ELSE LET existing_names == names_of(existing_data[1])
             highest == max_suffix_from(existing_names, name, 1, 1)
         IN  IF ~InSeq(name, existing_names) THEN Return(name)
             ELSE IF highest.exc # "" THEN highest
             ELSE Return(name \o <<" ">> \o py_str(highest.ret + 1))

\* what a summary writer did: the exception or the returned name, and the
\* Summary sheet it wrote (None when it wrote none)
Wrote(exc, unique_name, sheet) == [exc |-> exc, unique_name |-> unique_name, sheet |-> sheet]

\* the two summary writers: interval_ tells which; the interval writer
\* has the columns 'Total Intervals' and 'Rest Time' besides
write_summary(summary_dict, name, existing_data, interval_) ==
    IF DOMAIN summary_dict = {} THEN Wrote("", name, None)
    ELSE LET unique == get_unique_name(name, existing_data)
             new_row == Row(unique.ret, summary_dict.total_distance,
                            IF interval_ THEN py_str(summary_dict.total_intervals)
                            ELSE NaN)
             \* existing_data[col] = 'N/A' for the columns it lacks
             filled(r) == IF interval_ /\ ~existing_data[1].interval_columns
                          THEN Row(r.Name, r.total_distance, <<"N", "/", "A">>)
                          ELSE r
             old_rows == [i \in 1..Len(existing_data[1].rows) |->
                              filled(existing_data[1].rows[i])]
             combined_df ==
                 IF existing_data # None
                 THEN Frame(existing_data[1].interval_columns \/ interval_,
                            Append(old_rows, new_row))
                 ELSE Frame(interval_, <<new_row>>)
         IN  IF unique.exc # "" THEN Wrote(unique.exc, <<>>, None)
             ELSE Wrote("", unique.ret, Some(write_frame(combined_df)))

\* _write_summary_sheet(writer, summary_dict, name, existing_data)
write_summary_sheet(summary_dict, name, existing_data) ==
    write_summary(summary_dict, name, existing_data, FALSE)

\* _write_interval_summary_sheet(writer, summary_dict, name, existing_data)
write_interval_summary_sheet(summary_dict, name, existing_data) ==
    write_summary(summary_dict, name, existing_data, TRUE)

SplitBreakdown ==
    <<" ", "S", "p", "l", "i", "t", " ", "B", "r", "e", "a", "k", "d", "o", "w", "n">>
IntervalBreakdown ==
    <<" ", "I", "n", "t", "e", "r", "v", "a", "l", " ",
      "B", "r", "e", "a", "k", "d", "o", "w", "n">>

\* f"{name} Split Breakdown" / f"{name} Interval Breakdown"
breakdown_name(name, interval_) ==
    name \o (IF interval_ THEN IntervalBreakdown ELSE SplitBreakdown)

\* the outcome of a report call: the exception, the unique name and the
\* file it leaves
Reported(exc, unique_name, xlsx_, summary_sheet_, sheets_) ==
    [exc |-> exc, unique_name |-> unique_name, xlsx |-> xlsx_,
     summary_sheet |-> summary_sheet_, sheets |-> sheets_]

\* create_excel_report / create_interval_excel_report(summary, segments,
\* output_filename, name): interval_ tells which.  pd.ExcelWriter(mode='w')
\* replaces the file; when the block raises, or leaves the writer without
\* any sheet (openpyxl then raises IndexError), no workbook is saved.
create_report(xlsx_, summary_sheet_, sheets_, summary_dict, segments, name, interval_) ==
    LET existing == read_existing(xlsx_, summary_sheet_, sheets_)
        wrote == write_summary(summary_dict, name, existing.summary, interval_)
        sheet_name == breakdown_name(wrote.unique_name, interval_)
        written == IF segments # <<>> THEN {sheet_name} ELSE {}
        preserved == (DOMAIN existing.sheets) \ {sheet_name}
        content(k) == IF k \in preserved THEN existing.sheets[k] ELSE segments
    IN  IF wrote.exc # ""
        THEN Reported(wrote.exc, <<>>, "unreadable", None, EmptyDict)
        ELSE IF wrote.sheet = None /\ written \cup preserved = {}
        THEN Reported("IndexError", <<>>, "unreadable", None, EmptyDict)
        ELSE Reported("", wrote.unique_name, "book", wrote.sheet,
                      DictOf(written \cup preserved, content))

----------------------------------------------------------------------------
(* SpecExcel: up to MaxReports report calls on one output file, which at   *)
(* first is absent, or a workbook of another origin (without a 'Summary'   *)
(* sheet, or with one that has no row yet).                                *)

RowerNames == {<<"a">>, <<"a", " ", "2">>, <<"N", "A">>, <<>>}

\* summary.model_dump(), or {} for an object that is no model and no dict
SummaryDicts == {[total_distance |-> 2000, total_intervals |-> 4], EmptyDict}

\* the splits / intervals handed in, as their numbers
SegmentLists == {<<>>, <<1, 2>>}

OtherSheet == <<"n">>

InitExcel ==
    /\ \/ xlsx = "absent" /\ summary_sheet = None /\ sheets = EmptyDict
       \/ xlsx = "book" /\ summary_sheet = None
          /\ sheets = (OtherSheet :> <<9>>)
       \/ xlsx = "book" /\ summary_sheet = Some(Frame(FALSE, <<>>))
          /\ sheets = (OtherSheet :> <<9>>)
    /\ n_reports = 0
    /\ last_report = None
    /\ IdleCore /\ IdleUpload /\ IdleTools

Call_report(interval_) ==
    /\ n_reports < MaxReports
    /\ \E name \in RowerNames, summary_dict \in SummaryDicts,
          segments \in SegmentLists :
          LET r == create_report(xlsx, summary_sheet, sheets, summary_dict,
                                 segments, name, interval_)
          IN  /\ xlsx' = r.xlsx
              /\ summary_sheet' = r.summary_sheet
              /\ sheets' = r.sheets
              /\ last_report' = Some([name |-> name, interval |-> interval_,
                                      no_summary |-> DOMAIN summary_dict = {},
                                      segments |-> segments, exc |-> r.exc,
                                      unique_name |-> r.unique_name])
    /\ n_reports' = n_reports + 1
    /\ UNCHANGED <<coreVars, uploadVars, toolVars>>

Call_create_excel_report == Call_report(FALSE)

Call_create_interval_excel_report == Call_report(TRUE)

NextExcel == Call_create_excel_report \/ Call_create_interval_excel_report

SpecExcel == InitExcel /\ [][NextExcel]_vars

\* the rows of a Summary sheet, none when the sheet is missing
RowsOf(sheet) == IF sheet = None THEN <<>> ELSE sheet[1].rows

NameCells(sheet) == [i \in 1..Len(RowsOf(sheet)) |-> RowsOf(sheet)[i].Name]

PairwiseDistinct(seq) ==
    \A i, j \in 1..Len(seq) : i # j => seq[i] # seq[j]

\* a call that returned and wrote a Summary row
WroteRow(rep) == rep[1].exc = "" /\ ~rep[1].no_summary

\* C21: the name a report call gives its row is the name handed in when
\* the Summary sheet has no such Name, is in no case a Name the sheet
\* already holds, and so the Names of the Summary sheet stay pairwise
\* distinct.
C21_UniqueNames ==
    [][WroteRow(last_report') =>
           /\ ~InSeq(last_report'[1].name, NameCells(summary_sheet))
                  => last_report'[1].unique_name = last_report'[1].name
           /\ ~InSeq(last_report'[1].unique_name, NameCells(summary_sheet))
           /\ PairwiseDistinct(NameCells(summary_sheet'))]_vars

\* C22: create_excel_report on an existing file keeps every Summary row
\* in order and adds exactly one, writes the new Split Breakdown sheet,
\* and keeps every other sheet with its content.
C22_ReportLosesNothing ==
    [][(xlsx # "absent" /\ ~last_report'[1].interval) =>
           /\ xlsx' = "book"
           /\ Len(RowsOf(summary_sheet')) = Len(RowsOf(summary_sheet)) + 1
           /\ SubSeq(RowsOf(summary_sheet'), 1, Len(RowsOf(summary_sheet)))
                  = RowsOf(summary_sheet)
           /\ breakdown_name(last_report'[1].unique_name, FALSE) \in DOMAIN sheets'
           /\ \A k \in DOMAIN sheets :
                  k \in DOMAIN sheets' /\ sheets'[k] = sheets[k]]_vars

----------------------------------------------------------------------------
(* The upload handlers: Flask (src/app.py) and FastAPI                     *)
(* (erg_screen_reader/web.py).  One request is handled in one step.  The   *)
(* effects a handler carries out are recorded in `steps`: "save" (the      *)
(* image is written into the upload folder), "extract" (the AI call),      *)
(* "excel" (an Excel report), "sheets.create", "sheets.populate",          *)
(* "sheets.append" and "remove" (the saved image is deleted).  What the    *)
(* collaborators do is an input: whether saving, extracting and            *)
(* reporting succeed or raise.                                             *)

ALLOWED_EXTENSIONS ==
    {<<"p", "n", "g">>, <<"j", "p", "g">>, <<"j", "p", "e", "g">>,
     <<"g", "i", "f">>, <<"b", "m", "p">>, <<"t", "i", "f", "f">>}

UpperCase == <<"A", "B", "C", "D", "E", "F", "G", "H", "I", "J", "K", "L", "M",
               "N", "O", "P", "Q", "R", "S", "T", "U", "V", "W", "X", "Y", "Z">>
LowerCase == <<"a", "b", "c", "d", "e", "f", "g", "h", "i", "j", "k", "l", "m",
               "n", "o", "p", "q", "r", "s", "t", "u", "v", "w", "x", "y", "z">>

\* s.lower()
lower(s) ==
    [i \in 1..Len(s) |->
        IF InSeq(s[i], UpperCase)
        THEN LowerCase[CHOOSE k \in 1..Len(UpperCase) : UpperCase[k] = s[i]]
        ELSE s[i]]

RECURSIVE rsplit_tail(_, _)
\* s.rsplit(c, 1)[1] for an s that holds c: what follows its last c
rsplit_tail(s, c) ==
    IF s[Len(s)] = c THEN <<>>
    ELSE Append(rsplit_tail(SubSeq(s, 1, Len(s) - 1), c), s[Len(s)])

\* the mutant of allowed_file that looks at the end of the name only
allowed_file_suffix(filename) ==
    \E e \in ALLOWED_EXTENSIONS :
        /\ Len(filename) >= Len(e)
        /\ lower(SubSeq(filename, Len(filename) - Len(e) + 1, Len(filename))) = e

\* allowed_file(filename)
allowed_file(filename) ==
    /\ InSeq(".", filename)
    /\ lower(rsplit_tail(filename, ".")) \in ALLOWED_EXTENSIONS

\* what a handler did: the response's status and 'success' entry, the
\* effects, and whether the saved image is still in the upload folder
Handled(status, success, steps_, uploaded_) ==
    [status |-> status, success |-> success, steps |-> steps_, uploaded |-> uploaded_]

\* upload_file() of the Flask application.  A response without a
\* 'success' entry has success |-> "".  The interval and the regular branch
\* differ in the names of the calls only.
flask_upload_file(req, save_ok, extract_ok, report_ok) ==
    IF ~req.has_file THEN Handled(400, "", <<>>, FALSE)
    ELSE IF req.filename = <<>> THEN Handled(400, "", <<>>, FALSE)
    ELSE IF ~allowed_file(req.filename) THEN Handled(400, "", <<>>, FALSE)
    \* file.save raises: the outer except removes what was written
    ELSE IF ~save_ok THEN Handled(500, "", <<"save">>, FALSE)
    ELSE IF req.spreadsheet_option # "new" /\ req.existing_filename = <<>>
    THEN Handled(400, "", <<"save">>, TRUE)
    ELSE IF ~extract_ok THEN Handled(500, "", <<"save", "extract">>, TRUE)
    ELSE IF req.output_format = "sheets"
    THEN IF req.sheet_action = "existing" /\ req.sheet_url # <<>>
         THEN IF ~report_ok
              THEN Handled(400, "", <<"save", "extract", "sheets.append">>, TRUE)
              ELSE Handled(200, "true",
                           <<"save", "extract", "sheets.append", "remove">>, FALSE)
         ELSE IF ~report_ok
              THEN Handled(500, "", <<"save", "extract", "sheets.create", "remove">>,
                           FALSE)
              ELSE Handled(200, "true",
                           <<"save", "extract", "sheets.create", "sheets.populate",
                             "remove">>, FALSE)
    ELSE IF ~report_ok
         THEN Handled(500, "", <<"save", "extract", "excel", "remove">>, FALSE)
         ELSE Handled(200, "true", <<"save", "extract", "excel", "remove">>, FALSE)

UploadNames ==
    {<<>>, <<"a">>, <<"a", ".">>, <<".", "g", "i", "f">>,
     <<"a", ".", "p", "n", "g">>, <<"a", ".", "P", "n", "G">>,
     <<"a", ".", "t", "x", "t">>, <<"a", ".", "p", "n", "g", ".", "x">>,
     <<"a", ".", "x", ".", "j", "p", "e", "g">>, <<"p", "n", "g">>}

FlaskRequests ==
    [has_file : BOOLEAN, filename : UploadNames,
     spreadsheet_option : {"new", "existing"},
     existing_filename : {<<>>, <<"w">>},
     output_format : {"excel", "sheets"},
     sheet_action : {"new", "existing"},
     sheet_url : {<<>>, <<"u">>}]

InitFlask ==
    /\ request \in {Some(r) : r \in FlaskRequests}
    /\ response = NoResult /\ steps = <<>> /\ uploaded = FALSE
    /\ IdleCore /\ IdleExcel /\ IdleTools

Flask_upload_file ==
    /\ request # None /\ response = NoResult
    /\ \E save_ok, extract_ok, report_ok \in BOOLEAN :
           LET h == flask_upload_file(request[1], save_ok, extract_ok, report_ok)
           IN  /\ response' = Returned([status |-> h.status, success |-> h.success])
               /\ steps' = h.steps
               /\ uploaded' = h.uploaded
    /\ UNCHANGED <<coreVars, excelVars, toolVars, request>>

NextFlask == Flask_upload_file

SpecFlask == InitFlask /\ [][NextFlask]_vars

\* C23: whenever the Flask handler has saved the upload and has
\* responded, the saved image is no longer in the upload folder.
C23_UploadCleanedUp ==
    (response # NoResult /\ InSeq("save", steps)) => ~uploaded

----------------------------------------------------------------------------
(* SpecFastapi: one request to the FastAPI handler, OPENAI_API_KEY being   *)
(* unset, empty or set.                                                    *)

\* validate_environment(): whether it returns (it raises ValueError else)
validate_environment(api_key) == api_key # None /\ api_key[1] # <<>>

\* the mutant of fastapi_upload_file that validates the file first
fastapi_upload_file_file_first(req, save_ok, extract_ok, report_ok) ==
    IF req.filename = <<>> THEN Handled(400, "false", <<>>, FALSE)
    ELSE IF ~allowed_file(req.filename) THEN Handled(400, "false", <<>>, FALSE)
    ELSE IF ~validate_environment(req.api_key) THEN Handled(500, "false", <<>>, FALSE)
    ELSE IF ~save_ok THEN Handled(500, "false", <<"save">>, FALSE)
    ELSE IF ~extract_ok THEN Handled(500, "false", <<"save", "extract">>, TRUE)
    ELSE IF req.output_format = "sheets"
    THEN IF ~report_ok
         THEN Handled(500, "false", <<"save", "extract", "sheets.create">>, TRUE)
         ELSE Handled(200, "true",
                      <<"save", "extract", "sheets.create", "sheets.populate">>, TRUE)
    ELSE IF ~report_ok
         THEN Handled(500, "false", <<"save", "extract", "excel">>, TRUE)
         ELSE Handled(200, "true", <<"save", "extract", "excel">>, TRUE)

\* upload_file() of the FastAPI application; every exception ends in the
\* 500 response of the except clause, and the saved image is never removed.
\* When open() raises no image is written.
fastapi_upload_file(req, save_ok, extract_ok, report_ok) ==
    IF ~validate_environment(req.api_key) THEN Handled(500, "false", <<>>, FALSE)
    ELSE IF req.filename = <<>> THEN Handled(400, "false", <<>>, FALSE)
    ELSE IF ~allowed_file(req.filename) THEN Handled(400, "false", <<>>, FALSE)
    ELSE IF ~save_ok THEN Handled(500, "false", <<"save">>, FALSE)
    ELSE IF ~extract_ok THEN Handled(500, "false", <<"save", "extract">>, TRUE)
    ELSE IF req.output_format = "sheets"
    THEN IF ~report_ok
         THEN Handled(500, "false", <<"save", "extract", "sheets.create">>, TRUE)
         ELSE Handled(200, "true",
                      <<"save", "extract", "sheets.create", "sheets.populate">>, TRUE)
    ELSE IF ~report_ok
         THEN Handled(500, "false", <<"save", "extract", "excel">>, TRUE)
         ELSE Handled(200, "true", <<"save", "extract", "excel">>, TRUE)

ApiKeys == {None, Some(<<>>), Some(<<"k">>)}

FastapiRequests ==
    [api_key : ApiKeys, filename : UploadNames,
     workout_type : {"regular", "interval"},
     output_format : {"excel", "sheets"}]

InitFastapi ==
    /\ request \in {Some(r) : r \in FastapiRequests}
    /\ response = NoResult /\ steps = <<>> /\ uploaded = FALSE
    /\ IdleCore /\ IdleExcel /\ IdleTools

Fastapi_upload_file ==
    /\ request # None /\ response = NoResult
    /\ \E save_ok, extract_ok, report_ok \in BOOLEAN :
           LET h == fastapi_upload_file(request[1], save_ok, extract_ok, report_ok)
           IN  /\ response' = Returned([status |-> h.status, success |-> h.success])
               /\ steps' = h.steps
               /\ uploaded' = h.uploaded
    /\ UNCHANGED <<coreVars, excelVars, toolVars, request>>

NextFastapi == Fastapi_upload_file

SpecFastapi == InitFastapi /\ [][NextFastapi]_vars

\* the filename has a '.', and what follows its last '.' is, lower-cased,
\* an allowed extension
HasAllowedExtension(filename) ==
    \E i \in 1..Len(filename) :
        /\ filename[i] = "."
        /\ \A j \in (i + 1)..Len(filename) : filename[j] # "."
        /\ lower(SubSeq(filename, i + 1, Len(filename))) \in ALLOWED_EXTENSIONS

KeySet == request # None /\ request[1].api_key \notin {None, Some(<<>>)}

\* C24: with the API key set, the handler does something for an upload
\* only when its filename has an allowed extension; for every other
\* filename it answers 400 with an error, saves no file, extracts nothing
\* and writes no report.
C24_OnlyAllowedUploads ==
    (response # NoResult /\ KeySet) =>
        /\ steps # <<>> => HasAllowedExtension(request[1].filename)
        /\ ~HasAllowedExtension(request[1].filename) =>
               /\ response[1].status = 400 /\ response[1].success = "false"
               /\ steps = <<>> /\ ~uploaded

C24_Witness ==
    /\ response # NoResult /\ KeySet
    /\ InSeq(".", request[1].filename)
    /\ ~HasAllowedExtension(request[1].filename)
    /\ response[1].status = 400

\* C29: with the API key unset or empty the handler answers 500 with
\* success = false whatever the file is, saves nothing and runs no
\* extraction or report step.
C29_EnvironmentFirst ==
    (response # NoResult /\ ~KeySet) =>
        /\ response[1].status = 500 /\ response[1].success = "false"
        /\ steps = <<>> /\ ~uploaded

C29_Witness ==
    /\ response # NoResult /\ ~KeySet
    /\ HasAllowedExtension(request[1].filename)
    /\ response[1].status = 500

----------------------------------------------------------------------------
(* SpecErgCli: one run of the erg-screen-reader command line               *)
(* (erg_screen_reader/cli.py).  The response is the exit status.           *)

\* main(): args.sheets, args.workout_type and the rest of the command
\* line.  The interval and the regular branch differ in the names of the
\* calls only.
cli_main(args, extract_ok, report_ok) ==
    IF ~validate_environment(args.api_key) THEN Handled(1, "", <<>>, FALSE)
    ELSE IF ~extract_ok THEN Handled(1, "", <<"extract">>, FALSE)
    ELSE IF args.sheets
    THEN Handled(IF report_ok THEN 0 ELSE 1, "", <<"extract", "sheets.create">>, FALSE)
    ELSE Handled(IF report_ok THEN 0 ELSE 1, "", <<"extract", "excel">>, FALSE)

CliArgs ==
    [api_key : ApiKeys, sheets : BOOLEAN,
     workout_type : {"regular", "interval"},
     sheet_name : {None, Some(<<"t">>)},
     name : {<<"a">>, <<"b">>}]

InitErgCli ==
    /\ request \in {Some(a) : a \in CliArgs}
    /\ response = NoResult /\ steps = <<>> /\ uploaded = FALSE
    /\ IdleCore /\ IdleExcel /\ IdleTools

Run_cli_main ==
    /\ request # None /\ response = NoResult
    /\ \E extract_ok, report_ok \in BOOLEAN :
           LET h == cli_main(request[1], extract_ok, report_ok)
           IN  /\ response' = Returned([status |-> h.status, success |-> h.success])
               /\ steps' = h.steps
    /\ UNCHANGED <<coreVars, excelVars, toolVars, request, uploaded>>

NextErgCli == Run_cli_main

SpecErgCli == InitErgCli /\ [][NextErgCli]_vars

\* the Sheets operations among the effects, in order
SheetsOperations(steps_) ==
    SelectSeq(steps_, LAMBDA e : e \in {"sheets.create", "sheets.populate",
                                        "sheets.append"})

\* what the web upload path does for output_format = sheets
WebSheetsOperations ==
    SheetsOperations(
        fastapi_upload_file([api_key |-> Some(<<"k">>),
                             filename |-> <<"a", ".", "p", "n", "g">>,
                             workout_type |-> "regular",
                             output_format |-> "sheets"], TRUE, TRUE, TRUE).steps)

\* C25: a run with --sheets that ends well has written no Excel report
\* and has issued the Sheets operations of the web upload path: the
\* spreadsheet is created and then populated.
C25_SheetsDelivered ==
    (response # NoResult /\ request[1].sheets /\ response[1].status = 0) =>
        /\ ~InSeq("excel", steps)
        /\ SheetsOperations(steps) = WebSheetsOperations

----------------------------------------------------------------------------
(* SpecConstruct: construction of one workout of either sort of SpecWorkout *)
(* and SpecHeart, then reads of its segments' watts.                        *)

InitConstruct == InitWorkout \/ InitHeart

SpecConstruct == InitConstruct /\ [][NextWorkout]_vars

\* the summary's average power is the mean of the defined segment powers,
\* to within half a tenth
AverageIsMeanOfDefined ==
    /\ average_watts # None
    /\ \E all \in AllWattsOutcomes(kind, segs) :
           LET n == Cardinality(PowerDefined)
               total == SumSeq([i \in 1..Len(all) |->
                                    IF i \in PowerDefined THEN all[i][1] ELSE 0])
           IN  2 * Abs(average_watts[1] * n - total) <= n

\* C26: construction sets summary.average_watts to the rounded mean of
\* the defined segment powers when there is one, leaves it as supplied
\* when there is none, and changes nothing else but the segments'
\* incremental distances.
C26_ConstructionWritesOnlyAverage ==
    /\ []((pc = "constructed" /\ PowerDefined # {}) => AverageIsMeanOfDefined)
    /\ [][(pc = "validated" /\ pc' = "constructed") =>
             /\ kind' = kind /\ hrs' = hrs /\ average_hr' = average_hr
             /\ Len(segs') = Len(segs)
             /\ \A i \in 1..Len(segs) :
                    /\ segs'[i].distance = segs[i].distance
                    /\ segs'[i].pace = segs[i].pace
             /\ PowerDefined' = {} => average_watts' = average_watts]_vars

\* C26's case: a constructed workout with segments, none with a defined
\* power, whose supplied average is still there
C26_Witness ==
    /\ pc = "constructed" /\ segs # <<>> /\ PowerDefined = {}
    /\ average_watts = Some(7)

----------------------------------------------------------------------------
(* Fit_csv_reader.py, the standalone script: its window routine, its       *)
(* maximum and its pace loop over the rows of the CSV file FitToCSV.py     *)
(* writes from the same records.  Python's list index i is position i + 1  *)
(* of a sequence.                                                          *)

RECURSIVE highest_avg_slide(_, _, _, _, _)
\* lines 16-20: `for i in range(n+1, len(value_list))` from index i on,
\* then the division
highest_avg_slide(n, value_list, i, curr_n, max_n) ==
    IF i >= Len(value_list) THEN Return(Rat(max_n, n))
    ELSE LET next_n == curr_n - value_list[i - n + 2] + value_list[i + 1]
         IN  highest_avg_slide(n, value_list, i + 1, next_n, Max(next_n, max_n))

\* highest_avg(n, value_list): lines 12-14 add value_list[1..n], which
\* raises IndexError when the list has no index n
highest_avg(n, value_list) ==
    IF n >= Len(value_list) THEN Raise("IndexError")
    ELSE LET first_n == SumSeq(SubSeq(value_list, 2, n + 1))
         IN  highest_avg_slide(n, value_list, n + 1, first_n, first_n)

RECURSIVE find_max_from(_, _)
find_max_from(value_list, max_n) ==
    IF value_list = <<>> THEN max_n
    ELSE find_max_from(Tail(value_list), Max(Head(value_list), max_n))

\* find_max(value_list): the running maximum starts from 0
find_max(value_list) == find_max_from(value_list, 0)

\* a / b for b # 0, the denominator kept positive
RatQuot(a, b) ==
    IF b.num > 0 THEN RatNorm(Rat(a.num * b.den, a.den * b.num))
    ELSE RatNorm(Rat(0 - a.num * b.den, a.den * (0 - b.num)))

\* float('inf')
Inf == Rat(1, 0)

\* calculate_speed(distance1, distance2, time1, time2), the times in seconds
calculate_speed(distance1, distance2, time1, time2) ==
    LET distance_delta == RatSub(distance2, distance1)
        time_delta == Rat(time2 - time1, SecondsPerHour)
    IN  IF time_delta.num = 0 THEN Zero
        ELSE RatQuot(distance_delta, time_delta)

\* convert_speed_to_pace(speed)
convert_speed_to_pace(speed) ==
    IF speed.num = 0 THEN Inf
    ELSE LET speed_mph == RatQuot(speed, MetresPerMile)
         IN  RatQuot(Rat(60, 1), speed_mph)

\* the text csv.writer puts in the file for a field value (None is ''),
\* as what the script's conversions make of it:
\* datetime.strptime(text, "%Y-%m-%d %H:%M:%S") succeeds on a datetime's text
strptime_ok(cell) == cell # None /\ cell[1].kind = "time"
\* float(text) succeeds on a number's text and on a str that is a number
float_of_text(cell) ==
    IF cell = None THEN [ok |-> FALSE] ELSE py_float_value(cell[1])

RECURSIVE pace_loop_from(_, _, _, _, _)
\* lines 82-95: `for row in reader` from row i on; prev is None or
\* Some of prev_time and prev_distance, which are set together
pace_loop_from(headers_, data_, i, prev, paces_) ==
    IF i > Len(data_) THEN Return(paces_)
    ELSE LET stamp == data_[i][FirstIndex(headers_, "timestamp")]
             dist == data_[i][FirstIndex(headers_, "distance")]
         IN  IF stamp = None
             THEN pace_loop_from(headers_, data_, i + 1, prev, paces_)
             ELSE IF ~strptime_ok(stamp) \/ ~float_of_text(dist).ok
             THEN Raise("ValueError")
             ELSE LET current_time == stamp[1].num
                      current_distance == float_of_text(dist).val
                      pace == convert_speed_to_pace(
                                  calculate_speed(prev[1].distance, current_distance,
                                                  prev[1].time, current_time))
                      now == Some([time |-> current_time,
                                   distance |-> current_distance])
                  IN  IF prev # None /\ pace # Inf
                      THEN pace_loop_from(headers_, data_, i + 1, now,
                                          Append(paces_, pace))
                      ELSE pace_loop_from(headers_, data_, i + 1, now, paces_)

\* the script run with data_field "pace": the list `paces` after the loop
pace_loop(headers_, data_) == pace_loop_from(headers_, data_, 1, None, <<>>)

----------------------------------------------------------------------------
(* SpecScript: the script's routines on a metric series and a window       *)
(* length, or its pace loop on a file's records.                           *)

\* the files the script accepts: their records name both columns
ScriptAnalyzers ==
    {a \in AnalyzersUpTo(MaxRows) \cup ExampleAnalyzers :
         a.headers = <<"timestamp", "distance">>}

InitScript ==
    /\ \/ /\ values \in SeriesInputs
          /\ \E n \in WindowLengths : intervals = <<n>>
          /\ IdleAnalyzer
       \/ /\ values = <<>> /\ intervals = <<>>
          /\ \E a \in ScriptAnalyzers : headers = a.headers /\ data = a.data
    /\ best_intervals = NoResult
    /\ IdleScript /\ IdleService /\ IdleExcel /\ IdleUpload
    /\ IdleTime /\ IdleWatts /\ IdleWorkout /\ IdleHeart
    /\ IdleIngest /\ IdleCalls /\ IdleStats /\ IdleCli

Script_highest_avg ==
    /\ intervals # <<>> /\ window_avg = NoResult
    /\ window_avg' = Returned(highest_avg(intervals[1], values))
    /\ UNCHANGED <<coreVars, excelVars, uploadVars, serviceVars,
                   found_max, script_paces>>

Script_find_max ==
    /\ intervals # <<>> /\ found_max = NoResult
    /\ found_max' = Returned(find_max(values))
    /\ UNCHANGED <<coreVars, excelVars, uploadVars, serviceVars,
                   window_avg, script_paces>>

Script_pace_loop ==
    /\ headers # <<>> /\ script_paces = NoResult
    /\ script_paces' = Returned(pace_loop(headers, data))
    /\ UNCHANGED <<coreVars, excelVars, uploadVars, serviceVars,
                   window_avg, found_max>>

NextScript == Script_highest_avg \/ Script_find_max \/ Script_pace_loop

SpecScript == InitScript /\ [][NextScript]_vars

\* C27: for a window length n with 1 <= n <= len(v), highest_avg(n, v)
\* returns without error the value of calculate_best_intervals(v, [n])[n],
\* and for a non-empty v, find_max(v) is calculate_statistics(v)['max'].
C27_ScriptDuplicatesAnalyzer ==
    /\ (window_avg # NoResult /\ intervals[1] <= Len(values)) =>
           /\ window_avg[1].exc = ""
           /\ RatEq(window_avg[1].ret,
                    calculate_best_intervals(values, intervals)[intervals[1]])
    /\ (found_max # NoResult /\ values # <<>>) =>
           found_max[1] = MaxOf(values)

\* every record is a (timestamp, distance) pair
CompleteRecords ==
    /\ PairsWellFormed
    /\ \A i \in 1..Len(data) : HasStamp(i)

\* a is greater than 0 and finite
PositiveFinite(a) == a.den > 0 /\ a.num > 0

\* C28: on the same (timestamp, distance) records the script's pace loop
\* records the pace samples calculate_pace returns, and none of them is
\* negative or infinite.
C28_SamePaceSamples ==
    (script_paces # NoResult /\ CompleteRecords) =>
        LET scripted == script_paces[1]
            analyzed == calculate_pace(headers, data)
        IN  /\ scripted.exc = "" /\ analyzed.exc = ""
            /\ Len(scripted.ret) = Len(analyzed.ret)
            /\ \A k \in 1..Len(scripted.ret) :
                   /\ RatEq(scripted.ret[k], analyzed.ret[k])
                   /\ PositiveFinite(scripted.ret[k])

----------------------------------------------------------------------------
(* GoogleSheetsService: one instance, its two handles and the requests     *)
(* its methods send.  What the environment decides is an input of each     *)
(* call: how authenticate ends, and how each request's execute() ends --   *)
(* it returns, raises HttpError, or raises another error of the transport  *)
(* (a timeout).                                                            *)

\* most method calls made on one instance
MaxCalls == 2

\* how authenticate ends: no credentials file; a file that is no JSON;
\* credentials that cannot be loaded or refreshed; build('sheets') raises;
\* build('drive') raises; it returns
AuthOutcomes ==
    {"no_file", "bad_json", "no_credentials", "no_sheets", "no_drive", "ok"}

\* how execute() ends; "exists" is an HttpError that says "already exists"
ExecuteOutcomes == {"ok", "HttpError", "TimeoutError"}
AddSheetOutcomes == ExecuteOutcomes \cup {"exists"}

\* the instance after a method, what the method sent and how it ended
Ended(service_, drive_service_, sent, authenticated, public, result) ==
    [service |-> service_, drive_service |-> drive_service_, sent |-> sent,
     authenticate |-> authenticated, public |-> public,
     exc |-> result.exc, ret |-> result.ret]

\* authenticate(): the handles after it and the exception it raises.
\* self.service is assigned before build('drive') is called.
authenticate(service_, drive_service_, auth) ==
    [service |-> IF auth \in {"no_drive", "ok"} THEN Some("sheets") ELSE service_,
     drive_service |-> IF auth = "ok" THEN Some("drive") ELSE drive_service_,
     exc |-> CASE auth = "ok" -> ""
               [] auth = "no_file" -> "FileNotFoundError"
               [] auth = "bad_json" -> "ValueError"
               [] OTHER -> "Exception"]

\* `if not self.service: self.authenticate()`: the handles after it, the
\* exception, and whether authenticate ran ("" when it did not)
ensure_service(service_, drive_service_, auth) ==
    IF service_ = None
    THEN LET a == authenticate(service_, drive_service_, auth)
         IN  [service |-> a.service, drive_service |-> a.drive_service,
              exc |-> a.exc,
              authenticate |-> IF a.exc = "" THEN "ok" ELSE "failed"]
    ELSE [service |-> service_, drive_service |-> drive_service_, exc |-> "",
          authenticate |-> ""]

\* create_spreadsheet(title) with _make_public; the id is "id"
create_spreadsheet(service_, drive_service_, auth, create_out, public_out) ==
    LET e == ensure_service(service_, drive_service_, auth)
        created == <<"spreadsheets.create">>
    IN  IF e.exc # ""
        THEN Ended(e.service, e.drive_service, <<>>, e.authenticate, "",
                   Raise(e.exc))
        ELSE IF create_out = "HttpError"
        THEN Ended(e.service, e.drive_service, created, e.authenticate, "",
                   Raise("Exception"))
        ELSE IF create_out = "TimeoutError"
        THEN Ended(e.service, e.drive_service, created, e.authenticate, "",
                   Raise("TimeoutError"))
        ELSE IF e.drive_service = None
        THEN Ended(e.service, e.drive_service, created, e.authenticate,
                   "failed", Raise("AttributeError"))
        ELSE IF public_out = "TimeoutError"
        THEN Ended(e.service, e.drive_service,
                   Append(created, "permissions.create"), e.authenticate,
                   "failed", Raise("TimeoutError"))
        ELSE Ended(e.service, e.drive_service,
                   Append(created, "permissions.create"), e.authenticate,
                   IF public_out = "ok" THEN "ok" ELSE "failed",
                   Return(Some("id")))

\* the requests of populate_*_workout in order: the summary's update,
\* _add_sheet, the breakdown's update, and the two of _format_sheets
PopulateRequests ==
    <<"values.update", "batchUpdate", "values.update", "spreadsheets.get",
      "batchUpdate">>

RECURSIVE populate_from(_, _, _)
\* the try block of populate_*_workout from request k on: what is sent
\* from there and how the method ends
populate_from(k, outs, sent) ==
    IF k > Len(PopulateRequests) THEN [sent |-> sent, result |-> Return(None)]
    ELSE LET now == Append(sent, PopulateRequests[k])
         IN  IF outs[k] = "ok" \/ (k = 2 /\ outs[k] = "exists")
             THEN populate_from(k + 1, outs, now)
             ELSE IF outs[k] = "TimeoutError"
             THEN [sent |-> now, result |-> Raise("TimeoutError")]
             ELSE IF k >= 4
             THEN [sent |-> now, result |-> Return(None)]
             ELSE [sent |-> now, result |-> Raise("Exception")]

\* populate_regular_workout / populate_interval_workout
populate_workout(service_, drive_service_, auth, outs) ==
    LET e == ensure_service(service_, drive_service_, auth)
        p == populate_from(1, outs, <<>>)
    IN  IF e.exc # ""
        THEN Ended(e.service, e.drive_service, <<>>, e.authenticate, "",
                   Raise(e.exc))
        ELSE Ended(e.service, e.drive_service, p.sent, e.authenticate, "",
                   p.result)

----------------------------------------------------------------------------
(* SpecSheets: up to MaxCalls method calls on one instance.                *)

\* GoogleSheetsService(): both handles are None
InitSheets ==
    /\ service = None /\ drive_service = None
    /\ calls = <<>> /\ traffic = <<>>
    /\ IdleCore /\ IdleExcel /\ IdleUpload /\ IdleScript

\* the instance after the call, the call and what it sent put on record
Calling(method, e) ==
    /\ Len(calls) < MaxCalls
    /\ service' = e.service
    /\ drive_service' = e.drive_service
    /\ calls' = Append(calls, [method |-> method, handle |-> service # None,
                               authenticate |-> e.authenticate,
                               public |-> e.public,
                               exc |-> e.exc, ret |-> e.ret])
    /\ traffic' = traffic \o [k \in 1..Len(e.sent) |->
                                  [call |-> Len(calls) + 1, op |-> e.sent[k]]]
    /\ UNCHANGED <<coreVars, excelVars, uploadVars, scriptVars>>

OutcomeLists ==
    {outs \in [1..Len(PopulateRequests) -> AddSheetOutcomes] :
         \A k \in 1..Len(outs) : k # 2 => outs[k] \in ExecuteOutcomes}

Call_create_spreadsheet ==
    \E auth \in AuthOutcomes, create_out, public_out \in ExecuteOutcomes :
        Calling("create_spreadsheet",
                create_spreadsheet(service, drive_service, auth, create_out,
                                   public_out))

Call_populate_regular_workout ==
    \E auth \in AuthOutcomes, outs \in OutcomeLists :
        Calling("populate_regular_workout",
                populate_workout(service, drive_service, auth, outs))

Call_populate_interval_workout ==
    \E auth \in AuthOutcomes, outs \in OutcomeLists :
        Calling("populate_interval_workout",
                populate_workout(service, drive_service, auth, outs))

NextSheets ==
    \/ Call_create_spreadsheet
    \/ Call_populate_regular_workout
    \/ Call_populate_interval_workout

SpecSheets == InitSheets /\ [][NextSheets]_vars

\* the requests call k sent
SentBy(k) == SelectSeq(traffic, LAMBDA e : e.call = k)

\* C30: a method sends requests only with the service handle set, after
\* authenticate has run; authenticate runs exactly in the calls that find
\* the handle unset, so never again after it succeeded; a failed
\* authenticate leaves the handle unset and the call sends nothing; and
\* create_spreadsheet returns the id although making it public failed.
C30_RequestsNeedHandle ==
    /\ \A k \in 1..Len(calls) :
           /\ calls[k].authenticate # "" <=> ~calls[k].handle
           /\ SentBy(k) # <<>> =>
                  calls[k].handle \/ calls[k].authenticate = "ok"
           /\ calls[k].authenticate = "failed" => SentBy(k) = <<>>
           /\ (calls[k].method = "create_spreadsheet"
                   /\ calls[k].public = "failed") =>
                  calls[k].exc = "" /\ calls[k].ret = Some("id")
    /\ Cardinality({k \in 1..Len(calls) : calls[k].authenticate = "ok"}) <= 1
    /\ (calls # <<>> /\ calls[Len(calls)].authenticate = "failed") =>
           service = None

====
